---- MODULE Spec2Model ----
(***************************************************************************)
(* The real-time messaging core of the chat server: src/server/socket.js   *)
(* (socket handlers) and src/server/routes/conversations.js (REST          *)
(* companion), over the Message and Conversation collections.              *)
(*                                                                         *)
(* Every async handler is a process that interleaves with the others       *)
(* exactly where the event loop lets it: the store applies or answers the  *)
(* operation a handler awaits in one step, and where the code after the    *)
(* await emits or reads the in-memory maps the handler resumes in a step   *)
(* of its own.  A handler works on the document it loaded (its locals) and *)
(* a save writes only the paths the handler modified, as Mongoose does.    *)
(***************************************************************************)
EXTENDS Naturals, Integers, Sequences, FiniteSets

\* ------------------------------------------------------------------ bounds
MaxOps == 2        \* client events and REST requests that arrive in one run
MaxPre == 1        \* messages already stored and unread when the run starts
MaxFaults == 1     \* store operations of the send path that may throw
MaxTime == 4       \* seconds of wall-clock time a run spans
MaxBeats == 2      \* message:typing and leave:conversation events in one run

\* setTimeout(..., 3000) of message:typing, in seconds
TypingTimeout == 3

\* ------------------------------------------------------------- population
Users == {"a", "b", "x"}
\* sockets: the first session of a user carries the user's name; "b2" is a
\* second session of b (another device).  Message events are modelled on
\* first sessions.
Sockets == Users \cup {"b2"}
UserOf(s) == IF s = "b2" THEN "b" ELSE s
\* the stored conversation c1 is between a and b; "nx" is a well-formed id
\* of no stored conversation
ConvIds == {"c1", "nx"}
\* message contents, as the characters of the string
Hi == <<"h", "i">>
Space == <<" ">>
Empty == <<>>
\* the _id of the Message a send handler constructs: fresh for every handler
MsgId(i) == MaxPre + i
MsgIds == 1..(MaxPre + MaxOps)
NoMsg == [conv |-> "none"]
NoSnap == <<>>

VARIABLES
  sess,            \* per socket: the state of the connection
  connectedUsers,  \* the connectedUsers Map: userId -> socket of the entry
  isOnline,        \* User collection: the stored isOnline flag per user
  userUpdated,     \* the sockets whose connection or disconnect handler waits
                   \* at a User.findByIdAndUpdate that the store has applied
  typingUsers,     \* the typingUsers Map: conversation -> userId -> timestamp
  timers,          \* pending auto-clear timeouts of message:typing
  now,             \* wall-clock time, in seconds
  beats,           \* typing and leave events received so far
  rooms,           \* socket.io room membership: room id -> users joined
  scan,            \* per socket: markPendingMessagesAsDelivered in flight
  msgs,            \* Message collection: id -> document or NoMsg
  convs,           \* Conversation collection: id -> document
  h,               \* events and requests received so far, in arrival order,
                   \* each with the locals of its handler
  outbox,          \* events delivered to sockets, in emission order: per
                   \* message for message:status, one sequence for
                   \* message:new, one for user:status, one for
                   \* user:typing; what else a handler
                   \* emits is kept with the handler (h[i].out)
  faults           \* store failures injected so far

vars == <<sess, connectedUsers, isOnline, userUpdated, typingUsers, timers, now,
          beats, rooms, scan, msgs, convs, h, outbox, faults>>

\* what the chat handlers leave alone
presence == <<sess, connectedUsers, isOnline, userUpdated>>
typing == <<typingUsers, timers, now, beats>>

\* ---------------------------------------------------------------- helpers
RECURSIVE SeqToSet(_)
SeqToSet(s) == IF s = <<>> THEN {} ELSE {Head(s)} \cup SeqToSet(Tail(s))

\* Array.prototype.includes on readBy / participants
Includes(s, x) == \E k \in 1..Len(s) : s[k] = x

\* Map.get(key) || 0
MapGet(map, key) == IF key \in DOMAIN map THEN map[key] ELSE 0

\* Map.set(key, value)
MapSet(map, key, value) ==
  [k \in (DOMAIN map) \cup {key} |-> IF k = key THEN value ELSE map[k]]

\* Map.delete(key)
MapDelete(map, key) == [k \in (DOMAIN map) \ {key} |-> map[k]]

\* typingUsers is a Map from conversation to a Map from user to timestamp,
\* kept as the sequence of its entries in insertion order, which is the order
\* in which it is iterated; an entry whose users are all gone is deleted
\* typingUsers.get(c), or an empty Map when typingUsers.has(c) is false
TypingIn(tu, c) ==
  IF \E k \in 1..Len(tu) : tu[k].c = c
  THEN tu[CHOOSE k \in 1..Len(tu) : tu[k].c = c].users
  ELSE <<>>

\* typingUsers.set(c, new Map()) when there is no entry, then .get(c).set(u, t)
TypingSet(tu, c, u, t) ==
  IF \E k \in 1..Len(tu) : tu[k].c = c
  THEN [k \in 1..Len(tu) |->
          IF tu[k].c = c THEN [tu[k] EXCEPT !.users = MapSet(@, u, t)] ELSE tu[k]]
  ELSE Append(tu, [c |-> c, users |-> MapSet(<<>>, u, t)])

\* typingUsers.get(c).delete(u), then typingUsers.delete(c) when size is 0
TypingDelete(tu, c, u) ==
  SelectSeq([k \in 1..Len(tu) |->
               IF tu[k].c = c THEN [tu[k] EXCEPT !.users = MapDelete(@, u)] ELSE tu[k]],
            LAMBDA e : DOMAIN e.users # {})

\* a socket that is connected at transport level receives what is sent to it
Receiving(s) == sess[s] \in {"connecting", "up"}

\* connectedUsers.get(userId)?.socketId is truthy
HasSocketId(u) == u \in DOMAIN connectedUsers

\* io.to(socketId): the socket with that id, if it is still connected
SocketOf(u) ==
  IF u \in DOMAIN connectedUsers /\ Receiving(connectedUsers[u])
  THEN {connectedUsers[u]} ELSE {}

\* Conversation.findById
FindConv(c) == IF c \in DOMAIN convs THEN convs[c] ELSE [participants |-> <<>>]
ConvExists(c) == c \in DOMAIN convs

\* a lookup that takes the first participant, whoever sends
FirstParticipant(parts, u) == IF parts = <<>> THEN "undefined" ELSE parts[1]

\* conversation.participants.find(p => p.toString() !== userId)
OtherParticipant(parts, u) ==
  LET idx == {k \in 1..Len(parts) : parts[k] # u}
  IN  IF idx = {} THEN "undefined"
      ELSE parts[CHOOSE k \in idx : \A j \in idx : k <= j]

\* an event as one socket.io emission: name, receivers, emitting handler
\* (0: connection / on-connect scan), conversation, message, status, counter
Ev(ev, to, op, c, m, st, n) ==
  [ev |-> ev, to |-> to, op |-> op, c |-> c, m |-> m, st |-> st, n |-> n]

\* a user:typing event { conversationId, userId, isTyping }
TypingEv(to, c, u, st, n) ==
  [ev |-> "user:typing", to |-> to, op |-> 0, c |-> c, m |-> 0, st |-> st, n |-> n, u |-> u]

\* the emission log, by channel
LogStatus(ob, e) == [ob EXCEPT !.status[e.m] = Append(@, e)]
LogNew(ob, e) == [ob EXCEPT !.new = Append(@, e)]
LogUser(ob, e) == [ob EXCEPT !.user = Append(@, e)]
LogTyping(ob, e) == [ob EXCEPT !.typing = Append(@, e)]

\* socket.emit from a handler of user u: dropped once the socket is gone
ToSocket(u) == IF Receiving(u) THEN {u} ELSE {}
\* io.to(conversationId)
ToRoom(c) == rooms[c]
\* socket.broadcast: every connected socket but the emitter's
ToOthers(s) == {v \in Sockets : v # s /\ Receiving(v)}
\* socket.to(conversationId): the room without the emitter
ToRoomBut(c, s) == rooms[c] \ {s}

\* one conversation:unreadUpdate per participant that has a socket id
\* (conversation.participants.forEach in message:read / markAllRead)
RECURSIVE UnreadUpdates(_, _, _, _)
UnreadUpdates(parts, map, op, c) ==
  IF parts = <<>> THEN <<>>
  ELSE (IF HasSocketId(Head(parts))
        THEN <<Ev("conversation:unreadUpdate", SocketOf(Head(parts)), op, c, 0, "",
                  MapGet(map, Head(parts)))>>
        ELSE <<>>)
       \o UnreadUpdates(Tail(parts), map, op, c)

\* --------------------------------------------------------------- documents
\* messageSchema: content is required (a String: the empty string fails,
\* whitespace passes; there is no trim)
ValidContent(content) == Len(content) > 0

\* new Message({...}) in message:send
NewMessage(c, u, content) ==
  [conv |-> c, sender |-> u, content |-> content, status |-> "sent",
   isRead |-> FALSE, readBy |-> <<>>, deliveredAt |-> TRUE, readAt |-> 0, pos |-> 0]

\* await message.save(): the document is inserted into the messages collection
\* ms under its _id m; pos is its place in the collection's insertion order
Inserted(ms, m, doc) ==
  [ms EXCEPT ![m] = [doc EXCEPT !.pos = Cardinality({k \in DOMAIN ms : ms[k] # [conv |-> "none"]}) + 1]]

Blank ==
  [kind |-> "", s |-> "", u |-> "", c |-> "", m |-> 0, content |-> Empty, pc |-> "done",
   found |-> FALSE, other |-> "", snap |-> NoSnap, ldStatus |-> "",
   ldHas |-> FALSE, ldIsRead |-> FALSE, n |-> 0, res |-> "", out |-> <<>>,
   parts |-> <<>>, modified |-> {}, pre |-> FALSE, again |-> FALSE]

\* the events and requests that arrived during the run: a handler that was
\* already suspended when the run starts is not one of them
Arrived == Len(SelectSeq(h, LAMBDA r : ~r.pre))

\* Mongoose change tracking on a loaded conversation: assigning to a path, or
\* unreadCount.set(key, value), marks something modified only when the value
\* differs from the loaded one, and save() writes only what is modified
ContentModified(conv, content) ==
  IF conv.lastMessageContent # content THEN {"lastMessageContent"} ELSE {}
CountModified(unreadCount, key, value) ==
  IF key \in DOMAIN unreadCount /\ unreadCount[key] = value THEN {} ELSE {"unreadCount"}

\* handler i returns, having emitted evs to sockets on its way out
FinishWith(i, res, evs) ==
  [h EXCEPT ![i].pc = "done", ![i].res = res, ![i].snap = NoSnap,
            ![i].modified = {}, ![i].out = @ \o evs]
Finish(i, res) == FinishWith(i, res, <<>>)

\* POST /conversations stores both counters at 0; k messages from a to b have
\* been sent since and none was read
InitConvs(k) ==
  [c \in {"c1"} |->
     [participants |-> <<"a", "b">>, lastMessage |-> k,
      lastMessageContent |-> IF k = 0 THEN Empty ELSE Hi,
      unreadCount |-> [u \in {"a", "b"} |-> IF u = "b" THEN k ELSE 0], pos |-> 1]]

\* The run starts from a state the server is in once a and x have connected,
\* a has joined c1, and a has sent k messages that nobody read.  b either
\* never connected ("none": the messages are still sent), or connected and
\* joined c1 before they were sent ("up": they are delivered, no timer or
\* scan is pending), or has just connected after they were sent ("fresh":
\* the connection handler has resumed and its scan is about to look).
InitWith(bState, k) ==
    /\ sess = [s \in Sockets |->
                IF s = "b2" \/ (s = "b" /\ bState = "none") THEN "none" ELSE "up"]
    /\ connectedUsers = [u \in (IF bState = "none" THEN Users \ {"b"} ELSE Users) |-> u]
    /\ isOnline = [u \in Users |-> ~(u = "b" /\ bState = "none")]
    /\ userUpdated = {}
    /\ typingUsers = <<>>
    /\ timers = <<>>
    /\ now = 0
    /\ beats = 0
    /\ rooms = [c \in ConvIds |->
                 IF c = "c1" THEN (IF bState = "up" THEN {"a", "b"} ELSE {"a"}) ELSE {}]
    /\ scan = [s \in Sockets |->
                IF s = "b" /\ bState = "fresh"
                THEN [pc |-> "find", todo |-> <<"c1">>, pending |-> {}]
                ELSE [pc |-> IF s \in {"a", "x"} \/ (s = "b" /\ bState = "up")
                             THEN "done" ELSE "idle",
                      todo |-> <<>>, pending |-> {}]]
    /\ msgs = [m \in MsgIds |->
                IF m <= k
                THEN [NewMessage("c1", "a", Hi) EXCEPT
                        !.status = IF bState = "up" THEN "delivered" ELSE "sent",
                        !.pos = m]
                ELSE NoMsg]
    /\ convs = InitConvs(k)
    /\ h = <<>>
    /\ outbox = [status |-> [m \in MsgIds |-> <<>>], new |-> <<>>, user |-> <<>>,
                 typing |-> <<>>]
    /\ faults = 0

Init == \E bState \in {"none", "up", "fresh"}, k \in 0..MaxPre : InitWith(bState, k)

\* the start in which b is connected and has joined c1, and has MaxPre
\* messages to read
InitJoined == InitWith("up", MaxPre)

\* ------------------------------------------------------------- connection
\* the _id of the Conversation the i-th request constructs
NewConvIds == <<"c2", "c3", "c4", "c5">>
NewConvId(i) == NewConvIds[i]

\* the conversations cs as a find without sort returns them: in insertion order
RECURSIVE InOrder(_)
InOrder(cs) ==
  IF cs = {} THEN <<>>
  ELSE LET c == CHOOSE c \in cs : \A d \in cs : convs[c].pos <= convs[d].pos
       IN  <<c>> \o InOrder(cs \ {c})
\* Conversation.find({ participants: userId }): participants never change
ConversationsOf(u) ==
  InOrder({c \in DOMAIN convs : Includes(convs[c].participants, u)})

\* io.on('connection'): connectedUsers.set(userId, {socketId}), whatever entry
\* the user had, then the handler suspends on the User write
Connect(s) ==
  /\ sess[s] = "none"
  /\ Arrived < MaxOps
  /\ h' = Append(h, [Blank EXCEPT !.kind = "connect", !.s = s, !.u = UserOf(s)])
  /\ sess' = [sess EXCEPT ![s] = "connecting"]
  /\ connectedUsers' = MapSet(connectedUsers, UserOf(s), s)
  /\ UNCHANGED <<isOnline, userUpdated, rooms, scan, msgs, convs, outbox, faults, typing>>

\* the store applies User.findByIdAndUpdate(userId, { isOnline: true }) of the
\* connection handler, which is still suspended
ConnectUpdate(s) ==
  /\ sess[s] \in {"connecting", "dropped"}
  /\ s \notin userUpdated
  /\ isOnline' = [isOnline EXCEPT ![UserOf(s)] = TRUE]
  /\ userUpdated' = userUpdated \cup {s}
  /\ UNCHANGED <<sess, connectedUsers, rooms, scan, msgs, convs, h, outbox, faults, typing>>

\* the rest of the connection handler, once the await has resolved:
\* broadcast, start the scan, which suspends on its Conversation.find,
\* register the listeners (a socket that closed meanwhile gets listeners
\* nobody calls)
ConnectResume(s) ==
  /\ sess[s] \in {"connecting", "dropped"}
  /\ s \in userUpdated
  /\ sess' = [sess EXCEPT ![s] = IF sess[s] = "connecting" THEN "up" ELSE "closed"]
  /\ userUpdated' = userUpdated \ {s}
  /\ outbox' = LogUser(outbox, Ev("user:status", ToOthers(s), 0, UserOf(s), 0, "online", 0))
  /\ scan' = [scan EXCEPT ![s] = [pc |-> "list", todo |-> <<>>, pending |-> {}]]
  /\ UNCHANGED <<connectedUsers, isOnline, rooms, msgs, convs, h, faults, typing>>

\* the typing cleanup of the disconnect handler, over typingUsers.entries()
\* in insertion order: the user's entry is deleted in every conversation, and
\* user:typing false goes to the room only where somebody else is still typing
ClearTyping(tu, u) ==
  SelectSeq([k \in 1..Len(tu) |-> [tu[k] EXCEPT !.users = MapDelete(@, u)]],
            LAMBDA e : DOMAIN e.users # {})
RECURSIVE StoppedNotices(_, _, _)
StoppedNotices(ob, entries, s) ==
  IF entries = <<>> THEN ob
  ELSE LET e == Head(entries)
       IN  StoppedNotices(
             IF UserOf(s) \in DOMAIN e.users /\ DOMAIN e.users # {UserOf(s)}
             THEN LogTyping(ob, TypingEv(ToRoomBut(e.c, s), e.c, UserOf(s), "false", 0))
             ELSE ob,
             Tail(entries), s)

\* socket.on('disconnect'), up to its User write: the typing cleanup and
\* connectedUsers.delete(userId), whichever socket the entry names.  Before
\* the listeners exist nothing handles the event.
Disconnect(s) ==
  /\ sess[s] \in {"connecting", "up"}
  /\ Arrived < MaxOps
  /\ h' = Append(h, [Blank EXCEPT !.kind = "disconnect", !.s = s, !.u = UserOf(s)])
  /\ rooms' = [c \in DOMAIN rooms |-> rooms[c] \ {s}]
  /\ IF sess[s] = "up"
     THEN /\ sess' = [sess EXCEPT ![s] = "closing"]
          /\ connectedUsers' = MapDelete(connectedUsers, UserOf(s))
          /\ typingUsers' = ClearTyping(typingUsers, UserOf(s))
          /\ outbox' = StoppedNotices(outbox, typingUsers, s)
     ELSE /\ sess' = [sess EXCEPT ![s] = "dropped"]
          /\ UNCHANGED <<connectedUsers, typingUsers, outbox>>
  /\ UNCHANGED <<isOnline, userUpdated, timers, now, beats, scan, msgs, convs, faults>>

\* the store applies User.findByIdAndUpdate(userId, { isOnline: false }) of
\* the disconnect handler, which is still suspended
DisconnectUpdate(s) ==
  /\ sess[s] = "closing"
  /\ s \notin userUpdated
  /\ isOnline' = [isOnline EXCEPT ![UserOf(s)] = FALSE]
  /\ userUpdated' = userUpdated \cup {s}
  /\ UNCHANGED <<sess, connectedUsers, rooms, scan, msgs, convs, h, outbox, faults, typing>>

\* the disconnect handler resumes from its await: the offline broadcast
DisconnectResume(s) ==
  /\ sess[s] = "closing"
  /\ s \in userUpdated
  /\ sess' = [sess EXCEPT ![s] = "closed"]
  /\ userUpdated' = userUpdated \ {s}
  /\ outbox' = LogUser(outbox, Ev("user:status", ToOthers(s), 0, UserOf(s), 0, "offline", 0))
  /\ UNCHANGED <<connectedUsers, isOnline, rooms, scan, msgs, convs, h, faults, typing>>

\* ---------------------------------------------------------------- handshake
\* the handshake of a connecting client: socket.handshake.auth.token may be
\* absent; jwt.verify throws with the message in fault ("" when it returns
\* the payload); id is the user id of the payload
Token(present, fault, id) == [present |-> present, fault |-> fault, id |-> id]
NoToken == Token(FALSE, "", "")
\* the tokens a client may present on socket s: none, one with a bad
\* signature, one that has expired, a good one of a user that does not exist,
\* and a good one of the user of the socket
TokensOf(s) ==
  {NoToken,
   Token(TRUE, "invalid signature", UserOf(s)),
   Token(TRUE, "jwt expired", UserOf(s)),
   Token(TRUE, "", "ghost"),
   Token(TRUE, "", UserOf(s))}

\* User.findById(decoded.id)
UserExists(id) == id \in Users

\* an authentication middleware that does not look the user up
AuthErrorUnchecked(tok) ==
  IF ~tok.present THEN "Authentication error: No token provided"
  ELSE IF tok.fault # "" THEN "Authentication error: " \o tok.fault
  ELSE ""

\* io.use: the message of the Error passed to next(), "" when next() is
\* called without one
AuthError(tok) ==
  IF ~tok.present THEN "Authentication error: No token provided"
  ELSE IF tok.fault # "" THEN "Authentication error: " \o tok.fault
  ELSE IF ~UserExists(tok.id) THEN "Authentication error: User not found"
  ELSE ""

\* next(err): socket.io answers the client with connect_error and the
\* message, and never emits 'connection' for the socket
Refuse(s, tok) ==
  /\ sess[s] = "none"
  /\ Arrived < MaxOps
  /\ h' = Append(h, [Blank EXCEPT !.kind = "handshake", !.s = s, !.u = tok.id,
                       !.res = AuthError(tok)])
  /\ UNCHANGED <<presence, rooms, scan, msgs, convs, outbox, faults, typing>>

\* a client connects on socket s presenting tok: the middleware, then the
\* connection handler when the middleware let it through
Handshake(s, tok) ==
  IF AuthError(tok) = "" THEN Connect(s) ELSE Refuse(s, tok)

\* socket.on('join:conversation'): no membership check
JoinConversation(s, c) ==
  /\ sess[s] = "up"
  /\ Arrived < MaxOps
  /\ h' = Append(h, [Blank EXCEPT !.kind = "join", !.s = s, !.u = UserOf(s), !.c = c])
  /\ rooms' = [rooms EXCEPT ![c] = @ \cup {s}]
  /\ UNCHANGED <<presence, scan, msgs, convs, outbox, faults, typing>>

\* --------------------------------------------- markPendingMessagesAsDelivered
ScanAdvance(s, rest) ==
  IF rest = <<>>
  THEN [pc |-> "done", todo |-> <<>>, pending |-> {}]
  ELSE [pc |-> "find", todo |-> rest, pending |-> {}]

\* Message.find({ conversationId, sender: { $ne: userId }, status: 'sent' })
PendingMessages(c, u) ==
  {m \in DOMAIN msgs :
     msgs[m] # NoMsg /\ msgs[m].conv = c /\ msgs[m].sender # u /\ msgs[m].status = "sent"}

\* await Conversation.find({ participants: userId }) of the scan: the
\* conversations stored when the query runs
ScanList(s) ==
  /\ scan[s].pc = "list"
  /\ scan' = [scan EXCEPT ![s] = ScanAdvance(s, ConversationsOf(UserOf(s)))]
  /\ UNCHANGED <<presence, rooms, msgs, convs, h, outbox, faults, typing>>

ScanFind(s) ==
  /\ scan[s].pc = "find"
  /\ LET c == Head(scan[s].todo)
         pend == PendingMessages(c, UserOf(s))
     IN  scan' = [scan EXCEPT ![s] =
                    IF pend = {} THEN ScanAdvance(s, Tail(scan[s].todo))
                    ELSE [pc |-> "update", todo |-> scan[s].todo, pending |-> pend]]
  /\ UNCHANGED <<presence, rooms, msgs, convs, h, outbox, faults, typing>>

\* pendingMessages.forEach: message:status delivered to each sender that has
\* a connectedUsers entry when the loop runs
RECURSIVE DeliveredNotices(_, _, _)
DeliveredNotices(ob, pend, c) ==
  IF pend = {} THEN ob
  ELSE LET m == CHOOSE k \in pend : \A j \in pend : k <= j
       IN  DeliveredNotices(
             IF HasSocketId(msgs[m].sender)
             THEN LogStatus(ob, Ev("message:status", SocketOf(msgs[m].sender), 0, c,
                                   m, "delivered", 0))
             ELSE ob,
             pend \ {m}, c)

\* an update that stamps deliveredAt and forgets the status
StampDelivered(m) == [msgs[m] EXCEPT !.deliveredAt = TRUE]

\* Message.updateMany({ _id: { $in: ids } }, { status: 'delivered', deliveredAt })
MarkDelivered(m) == [msgs[m] EXCEPT !.status = "delivered", !.deliveredAt = TRUE]

\* the store applies the updateMany of the scan, which is still suspended
ScanUpdate(s) ==
  /\ scan[s].pc = "update"
  /\ msgs' = [m \in DOMAIN msgs |->
               IF m \in scan[s].pending THEN MarkDelivered(m) ELSE msgs[m]]
  /\ scan' = [scan EXCEPT ![s].pc = "updated"]
  /\ UNCHANGED <<presence, rooms, convs, h, outbox, faults, typing>>

\* the scan resumes from the updateMany: the emit loop over the messages it
\* found, then the next conversation
ScanEmit(s) ==
  /\ scan[s].pc = "updated"
  /\ outbox' = DeliveredNotices(outbox, scan[s].pending, Head(scan[s].todo))
  /\ scan' = [scan EXCEPT ![s] = ScanAdvance(s, Tail(scan[s].todo))]
  /\ UNCHANGED <<presence, rooms, msgs, convs, h, faults, typing>>

\* ------------------------------------------------------------ message:send
\* the catch of message:send
SendError(i) == <<Ev("message:error", ToSocket(h[i].u), i, "", 0, "", 0)>>

\* the event arrives on a socket whose listeners are registered
SendStart(u, c, content) ==
  /\ sess[u] = "up"
  /\ Arrived < MaxOps
  /\ h' = Append(h, [Blank EXCEPT !.kind = "send", !.u = u, !.c = c,
                       !.m = MsgId(Len(h) + 1), !.content = content, !.pc = "saveMsg"])
  /\ UNCHANGED <<presence, rooms, scan, msgs, convs, outbox, faults, typing>>

\* await message.save(): schema validation, then the insert
SendSaveMsg(i) ==
  /\ h[i].kind = "send" /\ h[i].pc = "saveMsg"
  /\ IF ValidContent(h[i].content)
     THEN /\ msgs' = Inserted(msgs, h[i].m, NewMessage(h[i].c, h[i].u, h[i].content))
          /\ h' = [h EXCEPT ![i].pc = "findConv"]
     ELSE /\ h' = FinishWith(i, "error", SendError(i))
          /\ UNCHANGED msgs
  /\ UNCHANGED <<presence, rooms, scan, convs, outbox, faults, typing>>

\* await Conversation.findById(conversationId), then the edits of the loaded
\* document up to conversation.save()
SendFindConv(i) ==
  /\ h[i].kind = "send" /\ h[i].pc = "findConv"
  /\ IF ConvExists(h[i].c)
     THEN LET conv == FindConv(h[i].c)
              otherKey == OtherParticipant(conv.participants, h[i].u)
              count == MapGet(conv.unreadCount, otherKey) + 1
          IN  h' = [h EXCEPT ![i].pc = "saveConv", ![i].found = TRUE,
                             ![i].other = otherKey,
                             ![i].snap = MapSet(conv.unreadCount, otherKey, count),
                             ![i].modified =
                               ContentModified(conv, h[i].content)
                                 \cup CountModified(conv.unreadCount, otherKey, count)]
     ELSE h' = [h EXCEPT ![i].pc = "reread", ![i].found = FALSE]
  /\ UNCHANGED <<presence, rooms, scan, msgs, convs, outbox, faults, typing>>

\* conversation.save() writes the modified paths: lastMessage (a new _id) and
\* lastMessageTime always, lastMessageContent when the content differs from
\* the loaded one, and the one unreadCount key that was set
SaveSendConv(conv, i) ==
  [conv EXCEPT !.lastMessage = h[i].m,
               !.lastMessageContent =
                 IF "lastMessageContent" \in h[i].modified THEN h[i].content ELSE @,
               !.unreadCount =
                 IF "unreadCount" \in h[i].modified
                 THEN MapSet(@, h[i].other, h[i].snap[h[i].other]) ELSE @]

\* the store applies conversation.save() of the send handler, which is still
\* suspended
SendSaveConv(i) ==
  /\ h[i].kind = "send" /\ h[i].pc = "saveConv"
  /\ convs' = [convs EXCEPT ![h[i].c] = SaveSendConv(@, i)]
  /\ h' = [h EXCEPT ![i].pc = "savedConv", ![i].modified = {}]
  /\ UNCHANGED <<presence, rooms, scan, msgs, outbox, faults, typing>>

\* the handler resumes from the save: the unread badge for the receiver that
\* has a connectedUsers entry now, then Message.findById is awaited
SendUnreadUpdate(i) ==
  /\ h[i].kind = "send" /\ h[i].pc = "savedConv"
  /\ h' = [h EXCEPT ![i].pc = "reread",
                     ![i].out = IF HasSocketId(h[i].other)
                                THEN Append(@, Ev("conversation:unreadUpdate",
                                                  SocketOf(h[i].other), i, h[i].c, 0, "",
                                                  MapGet(h[i].snap, h[i].other)))
                                ELSE @]
  /\ UNCHANGED <<presence, rooms, scan, msgs, convs, outbox, faults, typing>>

\* isRecipientOnline: the deferred delivered transition is scheduled
RecipientOnline(i) == HasSocketId(h[i].other)

\* the store answers Message.findById(message._id).populate().lean() with
\* the message as it is stored then; the handler is still suspended
SendReread(i) ==
  /\ h[i].kind = "send" /\ h[i].pc = "reread"
  /\ h' = [h EXCEPT ![i].pc = "populated", ![i].ldStatus = msgs[h[i].m].status]
  /\ UNCHANGED <<presence, rooms, scan, msgs, convs, outbox, faults, typing>>

\* the handler resumes with populatedMessage: message:new to the room,
\* message:sent to the sender, and the recipient check; reading
\* conversation.participants of a conversation that was not found throws
SendEmit(i) ==
  /\ h[i].kind = "send" /\ h[i].pc = "populated"
  /\ LET new == Ev("message:new", ToRoom(h[i].c), i, h[i].c, h[i].m, h[i].ldStatus, 0)
         sent == Ev("message:sent", ToSocket(h[i].u), i, h[i].c, h[i].m, "sent", 0)
     IN  /\ outbox' = LogNew(outbox, new)
         /\ h' = IF ~h[i].found THEN FinishWith(i, "error", <<sent>> \o SendError(i))
                 ELSE IF RecipientOnline(i)
                 THEN [h EXCEPT ![i].pc = "timer", ![i].snap = NoSnap,
                                ![i].out = Append(@, sent)]
                 ELSE FinishWith(i, "sent", <<sent>>)
  /\ UNCHANGED <<presence, rooms, scan, msgs, convs, faults, typing>>

\* the setTimeout callback: Message.findByIdAndUpdate(id, { status: 'delivered' })
SendTimerUpdate(i) ==
  /\ h[i].kind = "send" /\ h[i].pc = "timer"
  /\ msgs' = [msgs EXCEPT ![h[i].m] = MarkDelivered(h[i].m)]
  /\ h' = [h EXCEPT ![i].pc = "timerEmit"]
  /\ UNCHANGED <<presence, rooms, scan, convs, outbox, faults, typing>>

\* ... then socket.emit('message:status', { status: 'delivered' })
SendTimerEmit(i) ==
  /\ h[i].kind = "send" /\ h[i].pc = "timerEmit"
  /\ outbox' = LogStatus(outbox,
       Ev("message:status", ToSocket(h[i].u), i, h[i].c, h[i].m, "delivered", 0))
  /\ h' = Finish(i, "delivered")
  /\ UNCHANGED <<presence, rooms, scan, msgs, convs, faults, typing>>

\* a store operation of the send path rejects: the catch emits message:error
SendStoreFault(i) ==
  /\ h[i].kind = "send"
  /\ h[i].pc \in {"saveMsg", "findConv", "saveConv", "reread"}
  /\ faults < MaxFaults
  /\ faults' = faults + 1
  /\ h' = FinishWith(i, "error", SendError(i))
  /\ UNCHANGED <<presence, rooms, scan, msgs, convs, outbox, typing>>

\* ------------------------------------------------------------ message:read
ReadStart(u, c, m) ==
  /\ sess[u] = "up"
  /\ Arrived < MaxOps
  /\ h' = Append(h, [Blank EXCEPT !.kind = "read", !.u = u, !.c = c, !.m = m,
                       !.pc = "findMsg"])
  /\ UNCHANGED <<presence, rooms, scan, msgs, convs, outbox, faults, typing>>

\* a guard that lets the sender read the message too
FoundMessage(message, u) == message # NoMsg

\* message && message.sender.toString() !== socket.userId
ReadableBy(message, u) == message # NoMsg /\ message.sender # u

\* await Message.findById(messageId); the guard of line 275 and the edits of
\* the loaded document
ReadFindMsg(i) ==
  /\ h[i].kind = "read" /\ h[i].pc = "findMsg"
  /\ LET message == msgs[h[i].m]
     IN  h' = IF ReadableBy(message, h[i].u)
              THEN [h EXCEPT ![i].pc = "saveMsg",
                             ![i].ldStatus = message.status,
                             ![i].ldIsRead = message.isRead,
                             ![i].ldHas = Includes(message.readBy, h[i].u)]
              ELSE Finish(i, "ignored")
  /\ UNCHANGED <<presence, rooms, scan, msgs, convs, outbox, faults, typing>>

\* message.save() of message:read: readAt is always written, status and
\* isRead when they differ from what was loaded, readBy is pushed to when the
\* loaded array did not include the reader
SaveReadMessage(message, i) ==
  [message EXCEPT !.isRead = TRUE,
                  !.readAt = i,
                  !.status = IF h[i].ldStatus # "read" THEN "read" ELSE @,
                  !.readBy = IF h[i].ldHas THEN @ ELSE Append(@, h[i].u)]

\* the store applies message.save() of message:read; the handler is still
\* suspended
ReadSaveMsg(i) ==
  /\ h[i].kind = "read" /\ h[i].pc = "saveMsg"
  /\ msgs' = [msgs EXCEPT ![h[i].m] = SaveReadMessage(@, i)]
  /\ h' = [h EXCEPT ![i].pc = "savedMsg"]
  /\ UNCHANGED <<presence, rooms, scan, convs, outbox, faults, typing>>

\* the handler resumes from the save: message:status read to the room named
\* in the payload, then Conversation.findById is awaited
ReadEmitStatus(i) ==
  /\ h[i].kind = "read" /\ h[i].pc = "savedMsg"
  /\ outbox' = LogStatus(outbox,
       Ev("message:status", ToRoom(h[i].c), i, h[i].c, h[i].m, "read", 0))
  /\ h' = [h EXCEPT ![i].pc = "findConv"]
  /\ UNCHANGED <<presence, rooms, scan, msgs, convs, faults, typing>>

\* a decrement that does not look at the counter
AnyCount(count) == TRUE

\* if (currentUnreadCount > 0)
Positive(count) == count > 0

\* await Conversation.findById; decrement only when the counter is positive
ReadFindConv(i) ==
  /\ h[i].kind = "read" /\ h[i].pc = "findConv"
  /\ h' = IF ConvExists(h[i].c) /\ Positive(MapGet(FindConv(h[i].c).unreadCount, h[i].u))
          THEN LET uc == FindConv(h[i].c).unreadCount
               IN  [h EXCEPT ![i].pc = "saveConv",
                             ![i].snap = MapSet(uc, h[i].u, MapGet(uc, h[i].u) - 1),
                             ![i].modified =
                               CountModified(uc, h[i].u, MapGet(uc, h[i].u) - 1)]
          ELSE Finish(i, "read")
  /\ UNCHANGED <<presence, rooms, scan, msgs, convs, outbox, faults, typing>>

\* conversation.save() of a read or markAllRead: the caller's unreadCount key
SaveCallerCount(conv, i) ==
  [conv EXCEPT !.unreadCount =
                 IF "unreadCount" \in h[i].modified
                 THEN MapSet(@, h[i].u, h[i].snap[h[i].u]) ELSE @]

\* the store applies conversation.save() of message:read; the handler is
\* still suspended
ReadSaveConv(i) ==
  /\ h[i].kind = "read" /\ h[i].pc = "saveConv"
  /\ convs' = [convs EXCEPT ![h[i].c] = SaveCallerCount(@, i)]
  /\ h' = [h EXCEPT ![i].pc = "savedConv", ![i].modified = {}]
  /\ UNCHANGED <<presence, rooms, scan, msgs, outbox, faults, typing>>

\* the handler resumes from the save: the unread updates from the loaded
\* document, to the participants that have a connectedUsers entry now
ReadUnreadUpdates(i) ==
  /\ h[i].kind = "read" /\ h[i].pc = "savedConv"
  /\ h' = FinishWith(i, "read",
            UnreadUpdates(convs[h[i].c].participants, h[i].snap, i, h[i].c))
  /\ UNCHANGED <<presence, rooms, scan, msgs, convs, outbox, faults, typing>>

\* ------------------------------------------------ conversation:markAllRead
\* a conversation:markAllRead of user u on conversation c has returned, and
\* no send to c has arrived since it arrived
MarkedAllBefore(u, c) ==
  \E j \in 1..Len(h) :
    /\ h[j].kind = "markAll" /\ h[j].u = u /\ h[j].c = c
    /\ h[j].pc = "done" /\ h[j].res = "markedAll"
    /\ \A k \in (j + 1)..Len(h) : h[k].kind \in {"send", "restSend"} => h[k].c # c

\* the event arrives; again keeps for the record whether the user has marked
\* the conversation before
MarkAllStart(u, c) ==
  /\ sess[u] = "up"
  /\ Arrived < MaxOps
  /\ h' = Append(h, [Blank EXCEPT !.kind = "markAll", !.u = u, !.c = c,
                       !.pc = "updateMany", !.again = MarkedAllBefore(u, c)])
  /\ UNCHANGED <<presence, rooms, scan, msgs, convs, outbox, faults, typing>>

\* the filter of Message.updateMany in conversation:markAllRead
UnreadInbound(c, u) ==
  {m \in DOMAIN msgs :
     msgs[m] # NoMsg /\ msgs[m].conv = c /\ msgs[m].sender # u /\ ~msgs[m].isRead}

\* its update: $set isRead, readAt and $addToSet readBy; status is not set
BulkMarkRead(message, i) ==
  [message EXCEPT !.isRead = TRUE,
                  !.readAt = i,
                  !.readBy = IF Includes(@, h[i].u) THEN @ ELSE Append(@, h[i].u)]

MarkAllUpdateMany(i) ==
  /\ h[i].kind = "markAll" /\ h[i].pc = "updateMany"
  /\ LET hit == UnreadInbound(h[i].c, h[i].u)
     IN  /\ msgs' = [m \in DOMAIN msgs |->
                       IF m \in hit THEN BulkMarkRead(msgs[m], i) ELSE msgs[m]]
         /\ h' = [h EXCEPT ![i].pc = "findConv", ![i].n = Cardinality(hit)]
  /\ UNCHANGED <<presence, rooms, scan, convs, outbox, faults, typing>>

MarkAllFindConv(i) ==
  /\ h[i].kind = "markAll" /\ h[i].pc = "findConv"
  /\ h' = IF ConvExists(h[i].c)
          THEN [h EXCEPT ![i].pc = "saveConv",
                         ![i].snap = MapSet(FindConv(h[i].c).unreadCount, h[i].u, 0),
                         ![i].modified = CountModified(FindConv(h[i].c).unreadCount, h[i].u, 0)]
          ELSE Finish(i, "noConversation")
  /\ UNCHANGED <<presence, rooms, scan, msgs, convs, outbox, faults, typing>>

\* the store applies conversation.save() of markAllRead; the handler is still
\* suspended
MarkAllSaveConv(i) ==
  /\ h[i].kind = "markAll" /\ h[i].pc = "saveConv"
  /\ convs' = [convs EXCEPT ![h[i].c] = SaveCallerCount(@, i)]
  /\ h' = [h EXCEPT ![i].pc = "savedConv", ![i].modified = {}]
  /\ UNCHANGED <<presence, rooms, scan, msgs, outbox, faults, typing>>

\* the handler resumes from the save: the unread updates from the loaded
\* document, to the participants that have a connectedUsers entry now
MarkAllUnreadUpdates(i) ==
  /\ h[i].kind = "markAll" /\ h[i].pc = "savedConv"
  /\ h' = FinishWith(i, "markedAll",
            UnreadUpdates(convs[h[i].c].participants, h[i].snap, i, h[i].c))
  /\ UNCHANGED <<presence, rooms, scan, msgs, convs, outbox, faults, typing>>

\* ------------------------------------- POST /:conversationId/messages (REST)
\* an authenticated request; `!content` answers 400 before any store call
RestSendStart(u, c, content) ==
  /\ Arrived < MaxOps
  /\ h' = Append(h, IF Len(content) = 0
                    THEN [Blank EXCEPT !.kind = "restSend", !.u = u, !.c = c,
                            !.m = MsgId(Len(h) + 1), !.content = content, !.res = "400"]
                    ELSE [Blank EXCEPT !.kind = "restSend", !.u = u, !.c = c,
                            !.m = MsgId(Len(h) + 1), !.content = content, !.pc = "findConv"])
  /\ UNCHANGED <<presence, rooms, scan, msgs, convs, outbox, faults, typing>>

\* Conversation.findById, 404, and the participant check (403)
RestSendFindConv(i) ==
  /\ h[i].kind = "restSend" /\ h[i].pc = "findConv"
  /\ h' = IF ~ConvExists(h[i].c) THEN Finish(i, "404")
          ELSE IF ~Includes(FindConv(h[i].c).participants, h[i].u) THEN Finish(i, "403")
          ELSE LET conv == FindConv(h[i].c)
                   otherKey == OtherParticipant(conv.participants, h[i].u)
                   count == MapGet(conv.unreadCount, otherKey) + 1
               IN  [h EXCEPT ![i].pc = "saveMsg", ![i].found = TRUE,
                             ![i].other = otherKey,
                             ![i].snap = MapSet(conv.unreadCount, otherKey, count),
                             ![i].modified =
                               ContentModified(conv, h[i].content)
                                 \cup CountModified(conv.unreadCount, otherKey, count)]
  /\ UNCHANGED <<presence, rooms, scan, msgs, convs, outbox, faults, typing>>

\* message.save(): status defaults to 'sent'
RestSendSaveMsg(i) ==
  /\ h[i].kind = "restSend" /\ h[i].pc = "saveMsg"
  /\ msgs' = Inserted(msgs, h[i].m, NewMessage(h[i].c, h[i].u, h[i].content))
  /\ h' = [h EXCEPT ![i].pc = "saveConv"]
  /\ UNCHANGED <<presence, rooms, scan, convs, outbox, faults, typing>>

\* conversation.save() of the document loaded before the message was saved
RestSendSaveConv(i) ==
  /\ h[i].kind = "restSend" /\ h[i].pc = "saveConv"
  /\ convs' = [convs EXCEPT ![h[i].c] = SaveSendConv(@, i)]
  /\ h' = [h EXCEPT ![i].pc = "reread", ![i].modified = {}]
  /\ UNCHANGED <<presence, rooms, scan, msgs, outbox, faults, typing>>

\* Message.findById(...).populate, then 201
RestSendReread(i) ==
  /\ h[i].kind = "restSend" /\ h[i].pc = "reread"
  /\ h' = Finish(i, "201")
  /\ UNCHANGED <<presence, rooms, scan, msgs, convs, outbox, faults, typing>>

\* ------------------- PUT /:conversationId/messages/:messageId/read (REST)
RestReadStart(u, c, m) ==
  /\ Arrived < MaxOps
  /\ h' = Append(h, [Blank EXCEPT !.kind = "restRead", !.u = u, !.c = c, !.m = m,
                       !.pc = "findMsg"])
  /\ UNCHANGED <<presence, rooms, scan, msgs, convs, outbox, faults, typing>>

\* Message.findById: 404, 400 for the sender, nothing to do when isRead
RestReadFindMsg(i) ==
  /\ h[i].kind = "restRead" /\ h[i].pc = "findMsg"
  /\ LET message == msgs[h[i].m]
     IN  h' = IF message = NoMsg THEN Finish(i, "404")
              ELSE IF message.sender = h[i].u THEN Finish(i, "400")
              ELSE IF message.isRead THEN Finish(i, "200")
              ELSE [h EXCEPT ![i].pc = "saveMsg",
                             ![i].ldHas = Includes(message.readBy, h[i].u)]
  /\ UNCHANGED <<presence, rooms, scan, msgs, convs, outbox, faults, typing>>

\* message.save() of the REST read: isRead, readAt, readBy; no status, no counter
SaveRestRead(message, i) ==
  [message EXCEPT !.isRead = TRUE,
                  !.readAt = i,
                  !.readBy = IF h[i].ldHas THEN @ ELSE Append(@, h[i].u)]

RestReadSaveMsg(i) ==
  /\ h[i].kind = "restRead" /\ h[i].pc = "saveMsg"
  /\ msgs' = [msgs EXCEPT ![h[i].m] = SaveRestRead(@, i)]
  /\ h' = Finish(i, "200")
  /\ UNCHANGED <<presence, rooms, scan, convs, outbox, faults, typing>>

\* ------------------------------------------------ POST /conversations (REST)
\* the request body: participants when it is an array, participantId ("" when
\* absent)
Body(hasArray, participants, participantId) ==
  [hasArray |-> hasArray, participants |-> participants, participantId |-> participantId]

\* [...new Set(participantIds)]: the first occurrence of each id, in order
RECURSIVE Dedup(_)
Dedup(s) ==
  IF s = <<>> THEN <<>>
  ELSE LET init == Dedup(SubSeq(s, 1, Len(s) - 1))
       IN  IF Includes(init, s[Len(s)]) THEN init ELSE Append(init, s[Len(s)])

\* does the body carry participant information at all
HasParticipantInfo(body) == body.hasArray \/ body.participantId # ""

\* participantIds, once the caller is included and duplicates are removed
ParticipantIds(userId, body) ==
  LET given == IF body.hasArray THEN body.participants
               ELSE <<userId, body.participantId>>
  IN  Dedup(IF Includes(given, userId) THEN given ELSE Append(given, userId))

\* Conversation.findOne({ participants: { $all: ids, $size: ids.length } })
ExistingConversations(ids) ==
  {c \in DOMAIN convs :
     SeqToSet(ids) \subseteq SeqToSet(convs[c].participants)
       /\ Len(convs[c].participants) = Len(ids)}

\* new Conversation({ participants, unreadCount }) with every counter at 0
NewConversation(ids) ==
  [participants |-> ids, lastMessage |-> 0, lastMessageContent |-> Empty,
   unreadCount |-> [p \in SeqToSet(ids) |-> 0], pos |-> 0]

\* await conversation.save() of a new document: it is inserted into the
\* conversations collection cs under its _id c; pos is its place in the
\* collection's insertion order
InsertedConv(cs, c, doc) ==
  [k \in DOMAIN cs \cup {c} |->
     IF k = c THEN [doc EXCEPT !.pos = Cardinality(DOMAIN cs) + 1] ELSE cs[k]]

\* the request arrives: the two 400 answers, or the lookup is started
CreateStart(u, body) ==
  /\ Arrived < MaxOps
  /\ h' = Append(h,
            IF ~HasParticipantInfo(body) \/ Len(ParticipantIds(u, body)) < 2
            THEN [Blank EXCEPT !.kind = "create", !.u = u, !.res = "400"]
            ELSE [Blank EXCEPT !.kind = "create", !.u = u, !.pc = "findOne",
                    !.parts = ParticipantIds(u, body)])
  /\ UNCHANGED <<presence, rooms, scan, msgs, convs, outbox, faults, typing>>

\* await Conversation.findOne: an existing conversation is answered as it is,
\* the first in insertion order when several match
CreateFindOne(i) ==
  /\ h[i].kind = "create" /\ h[i].pc = "findOne"
  /\ LET found == ExistingConversations(h[i].parts)
     IN  h' = IF found # {}
              THEN [h EXCEPT ![i].pc = "done", ![i].res = "200",
                             ![i].c = CHOOSE c \in found :
                                        \A d \in found : convs[c].pos <= convs[d].pos]
              ELSE [h EXCEPT ![i].pc = "save"]
  /\ UNCHANGED <<presence, rooms, scan, msgs, convs, outbox, faults, typing>>

\* await conversation.save(), then res.json(conversation)
CreateSave(i) ==
  /\ h[i].kind = "create" /\ h[i].pc = "save"
  /\ convs' = InsertedConv(convs, NewConvId(i), NewConversation(h[i].parts))
  /\ h' = [h EXCEPT ![i].pc = "done", ![i].res = "200", ![i].c = NewConvId(i)]
  /\ UNCHANGED <<presence, rooms, scan, msgs, outbox, faults, typing>>

\* ---------------------------------------------------------------- typing
\* socket.on('message:typing'): set or delete the user's entry, tell the rest
\* of the room, and with isTyping arm a timeout that nothing ever cancels
Typing(s, c, isTyping) ==
  /\ sess[s] = "up"
  /\ beats < MaxBeats
  /\ beats' = beats + 1
  /\ typingUsers' = IF isTyping THEN TypingSet(typingUsers, c, UserOf(s), now)
                     ELSE TypingDelete(typingUsers, c, UserOf(s))
  /\ outbox' = LogTyping(outbox, TypingEv(ToRoomBut(c, s), c, UserOf(s),
                                          IF isTyping THEN "true" ELSE "false", now))
  /\ timers' = IF isTyping
               THEN Append(timers, [s |-> s, c |-> c, due |-> now + TypingTimeout])
               ELSE timers
  /\ UNCHANGED <<presence, now, rooms, scan, msgs, convs, h, faults>>

\* the setTimeout callback of message:typing: timeouts are all of the same
\* length, so they run in the order in which they were armed
TypingTimerFire ==
  /\ timers # <<>>
  /\ now >= Head(timers).due
  /\ LET t == Head(timers)
         u == UserOf(t.s)
     IN  IF u \in DOMAIN TypingIn(typingUsers, t.c)
         THEN /\ typingUsers' = TypingDelete(typingUsers, t.c, u)
              /\ outbox' = LogTyping(outbox, TypingEv(ToRoomBut(t.c, t.s), t.c, u, "false", now))
         ELSE UNCHANGED <<typingUsers, outbox>>
  /\ timers' = Tail(timers)
  /\ UNCHANGED <<presence, now, beats, rooms, scan, msgs, convs, h, faults>>

\* socket.on('typing:start'): tells the rest of the room, and nothing else
TypingStart(s, c) ==
  /\ sess[s] = "up"
  /\ beats < MaxBeats
  /\ beats' = beats + 1
  /\ outbox' = LogTyping(outbox, TypingEv(ToRoomBut(c, s), c, UserOf(s), "true", now))
  /\ UNCHANGED <<presence, typingUsers, timers, now, rooms, scan, msgs, convs, h, faults>>

\* socket.on('typing:stop'): tells the rest of the room, and nothing else
TypingStop(s, c) ==
  /\ sess[s] = "up"
  /\ beats < MaxBeats
  /\ beats' = beats + 1
  /\ outbox' = LogTyping(outbox, TypingEv(ToRoomBut(c, s), c, UserOf(s), "false", now))
  /\ UNCHANGED <<presence, typingUsers, timers, now, rooms, scan, msgs, convs, h, faults>>

\* a second passes; a timeout that is due runs first
Tick ==
  /\ now < MaxTime
  /\ \A k \in 1..Len(timers) : timers[k].due > now
  /\ now' = now + 1
  /\ UNCHANGED <<presence, typingUsers, timers, beats, rooms, scan, msgs, convs, h,
                 outbox, faults>>

\* socket.on('leave:conversation'): leaves the room and drops the user's
\* typing entry without telling anybody
LeaveConversation(s, c) ==
  /\ sess[s] = "up"
  /\ beats < MaxBeats
  /\ beats' = beats + 1
  /\ rooms' = [rooms EXCEPT ![c] = @ \ {s}]
  /\ typingUsers' = TypingDelete(typingUsers, c, UserOf(s))
  /\ UNCHANGED <<presence, timers, now, scan, msgs, convs, h, outbox, faults>>

\* ------------------------------------------------------- malformed events
\* the client events whose listener reads fields of its payload
ClientEvents ==
  {"message:send", "message:read", "conversation:markAllRead",
   "message:typing", "typing:start", "typing:stop"}
\* listeners that destructure the payload in their parameter list, outside
\* any try and outside any promise
SyncListeners == {"message:typing", "typing:start", "typing:stop"}

\* the writes that were handed to the store and have not resolved: those of
\* the handlers suspended at a save or an update, the User write of a
\* connection or disconnection handler, the updateMany of a scan
PendingWrites ==
  {[on |-> "handler", i |-> i, s |-> ""] : i \in
     {i \in DOMAIN h :
        \/ h[i].kind \in {"send", "restSend", "read", "restRead"} /\ h[i].pc = "saveMsg"
        \/ h[i].kind \in {"send", "restSend", "read", "markAll"} /\ h[i].pc = "saveConv"
        \/ h[i].kind = "send" /\ h[i].pc = "timer"
        \/ h[i].kind = "markAll" /\ h[i].pc = "updateMany"
        \/ h[i].kind = "create" /\ h[i].pc = "save"}}
    \cup {[on |-> "user", i |-> 0, s |-> s] : s \in
            {s \in Sockets : sess[s] \in {"connecting", "dropped", "closing"}
                                /\ s \notin userUpdated}}
    \cup {[on |-> "scan", i |-> 0, s |-> s] : s \in {s \in Sockets : scan[s].pc = "update"}}

\* the store st (messages, conversations, isOnline flags) once it has applied
\* the pending write w
Applied(w, st) ==
  IF w.on = "user"
  THEN [st EXCEPT !.isOnline[UserOf(w.s)] = sess[w.s] # "closing"]
  ELSE IF w.on = "scan"
  THEN [st EXCEPT !.msgs = [m \in DOMAIN @ |->
                              IF m \in scan[w.s].pending
                              THEN [@[m] EXCEPT !.status = "delivered", !.deliveredAt = TRUE]
                              ELSE @[m]]]
  ELSE LET i == w.i
           kind == h[i].kind
           pc == h[i].pc
       IN  IF kind \in {"send", "restSend"} /\ pc = "saveMsg"
           THEN IF ValidContent(h[i].content)
                THEN [st EXCEPT !.msgs =
                        Inserted(@, h[i].m, NewMessage(h[i].c, h[i].u, h[i].content))]
                ELSE st
           ELSE IF kind \in {"send", "restSend"} /\ pc = "saveConv"
           THEN [st EXCEPT !.convs[h[i].c] = SaveSendConv(@, i)]
           ELSE IF kind = "send" /\ pc = "timer"
           THEN [st EXCEPT !.msgs[h[i].m] =
                             [@ EXCEPT !.status = "delivered", !.deliveredAt = TRUE]]
           ELSE IF kind = "read" /\ pc = "saveMsg"
           THEN [st EXCEPT !.msgs[h[i].m] = SaveReadMessage(@, i)]
           ELSE IF kind = "restRead" /\ pc = "saveMsg"
           THEN [st EXCEPT !.msgs[h[i].m] = SaveRestRead(@, i)]
           ELSE IF kind \in {"read", "markAll"} /\ pc = "saveConv"
           THEN [st EXCEPT !.convs[h[i].c] = SaveCallerCount(@, i)]
           ELSE IF kind = "markAll" /\ pc = "updateMany"
           THEN [st EXCEPT !.msgs = [m \in DOMAIN @ |->
                   IF @[m] # NoMsg /\ @[m].conv = h[i].c /\ @[m].sender # h[i].u
                        /\ ~@[m].isRead
                   THEN BulkMarkRead(@[m], i) ELSE @[m]]]
           ELSE [st EXCEPT !.convs =
                   InsertedConv(@, NewConvId(i), NewConversation(h[i].parts))]

RECURSIVE ApplyWrites(_, _)
ApplyWrites(ws, st) ==
  IF ws = <<>> THEN st ELSE ApplyWrites(Tail(ws), Applied(Head(ws), st))

\* the store applies any of the pending writes, in any order, before the exit
WriteOrders ==
  {ws \in UNION {[1..k -> PendingWrites] : k \in 0..Cardinality(PendingWrites)} :
     \A a \in DOMAIN ws : \A b \in DOMAIN ws : a # b => ws[a] # ws[b]}

\* the process exits: every socket closes, the in-memory maps, rooms and
\* timeouts are gone, the handlers in flight never resume; the store keeps
\* what it held, the isOnline flags included, and what it applies of the
\* writes in flight
ProcessExit ==
  /\ \E ws \in WriteOrders :
       LET st == ApplyWrites(ws, [msgs |-> msgs, convs |-> convs, isOnline |-> isOnline])
       IN  msgs' = st.msgs /\ convs' = st.convs /\ isOnline' = st.isOnline
  /\ sess' = [s \in Sockets |-> IF sess[s] = "none" THEN "none" ELSE "closed"]
  /\ connectedUsers' = <<>>
  /\ userUpdated' = {}
  /\ typingUsers' = <<>>
  /\ timers' = <<>>
  /\ rooms' = [c \in DOMAIN rooms |-> {}]
  /\ scan' = [s \in Sockets |->
                IF scan[s].pc = "idle" THEN scan[s]
                ELSE [pc |-> "done", todo |-> <<>>, pending |-> {}]]
  /\ h' = [i \in DOMAIN h |->
             IF h[i].pc = "done" THEN h[i]
             ELSE [h[i] EXCEPT !.pc = "done", !.res = "aborted", !.snap = NoSnap,
                               !.modified = {}]]
  /\ UNCHANGED <<outbox, faults, now>>

\* the client emits ev without a payload: destructuring undefined throws a
\* TypeError.  In a synchronous listener it is an uncaught exception and the
\* process exits; in an async listener it is thrown before the try, the
\* promise rejects with nobody to handle it, and the runtime either exits
\* (the default of current Node versions) or only warns.
MalformedEvent(s, ev) ==
  /\ sess[s] = "up"
  /\ beats < MaxBeats
  /\ beats' = beats + 1
  /\ \/ ProcessExit
     \/ /\ ev \notin SyncListeners
        /\ UNCHANGED <<presence, typingUsers, timers, now, rooms, scan, msgs, convs, h,
                       outbox, faults>>

\* ------------------------------------------------------- the state machine
\* ids a client can name in a read: those of the stored messages, which it
\* learnt from message:new or from a listing, and one id of no message
Stored(m) == msgs[m] # NoMsg
Known == {m \in MsgIds : Stored(m)} \cup {MsgId(Len(h) + 1)}

\* the inputs of a run: who connects and disconnects, and the payloads sent
Movers == {"b"}
SendInputs ==
  {<<"a", "c1", Hi>>, <<"a", "c1", Space>>, <<"a", "c1", Empty>>,
   <<"a", "nx", Hi>>, <<"x", "c1", Hi>>, <<"b", "c1", Hi>>}
RestSendInputs ==
  {<<"a", "c1", Hi>>, <<"a", "c1", Empty>>, <<"a", "nx", Hi>>, <<"x", "c1", Hi>>}
ReadConvs == {"c1"}

Next ==
  \/ \E u \in Movers : Connect(u)
  \/ \E u \in Movers : ConnectUpdate(u)
  \/ \E u \in Movers : ConnectResume(u)
  \/ \E u \in Movers : ScanList(u)
  \/ \E u \in Movers : Disconnect(u)
  \/ \E u \in Movers : DisconnectUpdate(u)
  \/ \E u \in Movers : DisconnectResume(u)
  \/ \E u \in Movers, c \in ReadConvs : JoinConversation(u, c)
  \/ \E u \in Movers : ScanFind(u)
  \/ \E u \in Movers : ScanUpdate(u)
  \/ \E u \in Movers : ScanEmit(u)
  \/ \E in \in SendInputs : SendStart(in[1], in[2], in[3])
  \/ \E u \in Users, c \in ReadConvs, m \in Known : ReadStart(u, c, m)
  \/ \E u \in Users, c \in ReadConvs : MarkAllStart(u, c)
  \/ \E in \in RestSendInputs : RestSendStart(in[1], in[2], in[3])
  \/ \E u \in Users, c \in ReadConvs, m \in Known : RestReadStart(u, c, m)
  \/ \E i \in 1..Len(h) : SendSaveMsg(i)
  \/ \E i \in 1..Len(h) : SendFindConv(i)
  \/ \E i \in 1..Len(h) : SendSaveConv(i)
  \/ \E i \in 1..Len(h) : SendUnreadUpdate(i)
  \/ \E i \in 1..Len(h) : SendReread(i)
  \/ \E i \in 1..Len(h) : SendEmit(i)
  \/ \E i \in 1..Len(h) : SendTimerUpdate(i)
  \/ \E i \in 1..Len(h) : SendTimerEmit(i)
  \/ \E i \in 1..Len(h) : SendStoreFault(i)
  \/ \E i \in 1..Len(h) : ReadFindMsg(i)
  \/ \E i \in 1..Len(h) : ReadSaveMsg(i)
  \/ \E i \in 1..Len(h) : ReadEmitStatus(i)
  \/ \E i \in 1..Len(h) : ReadFindConv(i)
  \/ \E i \in 1..Len(h) : ReadSaveConv(i)
  \/ \E i \in 1..Len(h) : ReadUnreadUpdates(i)
  \/ \E i \in 1..Len(h) : MarkAllUpdateMany(i)
  \/ \E i \in 1..Len(h) : MarkAllFindConv(i)
  \/ \E i \in 1..Len(h) : MarkAllSaveConv(i)
  \/ \E i \in 1..Len(h) : MarkAllUnreadUpdates(i)
  \/ \E i \in 1..Len(h) : RestSendFindConv(i)
  \/ \E i \in 1..Len(h) : RestSendSaveMsg(i)
  \/ \E i \in 1..Len(h) : RestSendSaveConv(i)
  \/ \E i \in 1..Len(h) : RestSendReread(i)
  \/ \E i \in 1..Len(h) : RestReadFindMsg(i)
  \/ \E i \in 1..Len(h) : RestReadSaveMsg(i)

Spec == Init /\ [][Next]_vars

\* presence alone: the two sessions of b connect and disconnect, and the
\* session of a may disconnect
PresenceSockets == {"b", "b2"}
Leavers == {"a", "b", "b2"}
NextPresence ==
  \/ \E s \in PresenceSockets : Connect(s)
  \/ \E s \in PresenceSockets : ConnectUpdate(s)
  \/ \E s \in PresenceSockets : ConnectResume(s)
  \/ \E s \in PresenceSockets : ScanList(s)
  \/ \E s \in Leavers : Disconnect(s)
  \/ \E s \in Leavers : DisconnectUpdate(s)
  \/ \E s \in Leavers : DisconnectResume(s)
  \/ \E s \in PresenceSockets : ScanFind(s)
  \/ \E s \in PresenceSockets : ScanUpdate(s)
  \/ \E s \in PresenceSockets : ScanEmit(s)

SpecPresence == Init /\ [][NextPresence]_vars

\* the users that read in the focused specifications
Readers == {"a", "b"}

\* typing alone: a and b type in c1, b may leave the room or disconnect
TypingSockets == {"a", "b"}
NextTyping ==
  \/ \E s \in TypingSockets, isTyping \in BOOLEAN : Typing(s, "c1", isTyping)
  \/ \E s \in TypingSockets : TypingStart(s, "c1")
  \/ \E s \in TypingSockets : TypingStop(s, "c1")
  \/ TypingTimerFire
  \/ Tick
  \/ LeaveConversation("b", "c1")
  \/ Disconnect("b")
  \/ DisconnectUpdate("b")
  \/ DisconnectResume("b")

SpecTyping == Init /\ [][NextTyping]_vars

\* marking alone: a and b mark what is stored as read over the three paths,
\* message:read, conversation:markAllRead and the REST mark-read
NextMarking ==
  \/ \E u \in Readers : MarkAllStart(u, "c1")
  \/ \E u \in Readers, m \in Known : ReadStart(u, "c1", m)
  \/ \E u \in Readers, m \in Known : RestReadStart(u, "c1", m)
  \/ \E i \in 1..Len(h) : ReadFindMsg(i)
  \/ \E i \in 1..Len(h) : ReadSaveMsg(i)
  \/ \E i \in 1..Len(h) : ReadEmitStatus(i)
  \/ \E i \in 1..Len(h) : ReadFindConv(i)
  \/ \E i \in 1..Len(h) : ReadSaveConv(i)
  \/ \E i \in 1..Len(h) : ReadUnreadUpdates(i)
  \/ \E i \in 1..Len(h) : MarkAllUpdateMany(i)
  \/ \E i \in 1..Len(h) : MarkAllFindConv(i)
  \/ \E i \in 1..Len(h) : MarkAllSaveConv(i)
  \/ \E i \in 1..Len(h) : MarkAllUnreadUpdates(i)
  \/ \E i \in 1..Len(h) : RestReadFindMsg(i)
  \/ \E i \in 1..Len(h) : RestReadSaveMsg(i)

SpecMarking == Init /\ [][NextMarking]_vars

\* sending alone: a and the outsider x send over the socket and a sends over
\* REST
SendingInputs == {<<"a", "c1", Hi>>, <<"x", "c1", Hi>>}
NextSending ==
  \/ \E in \in SendingInputs : SendStart(in[1], in[2], in[3])
  \/ RestSendStart("a", "c1", Hi)
  \/ \E i \in 1..Len(h) : SendSaveMsg(i)
  \/ \E i \in 1..Len(h) : SendFindConv(i)
  \/ \E i \in 1..Len(h) : SendSaveConv(i)
  \/ \E i \in 1..Len(h) : SendUnreadUpdate(i)
  \/ \E i \in 1..Len(h) : SendReread(i)
  \/ \E i \in 1..Len(h) : SendEmit(i)
  \/ \E i \in 1..Len(h) : SendTimerUpdate(i)
  \/ \E i \in 1..Len(h) : SendTimerEmit(i)
  \/ \E i \in 1..Len(h) : RestSendFindConv(i)
  \/ \E i \in 1..Len(h) : RestSendSaveMsg(i)
  \/ \E i \in 1..Len(h) : RestSendSaveConv(i)
  \/ \E i \in 1..Len(h) : RestSendReread(i)

SpecSending == Init /\ [][NextSending]_vars

\* the two send paths of one participant: a sends over the socket and over REST
NextSenders ==
  \/ SendStart("a", "c1", Hi)
  \/ RestSendStart("a", "c1", Hi)
  \/ \E i \in 1..Len(h) : SendSaveMsg(i)
  \/ \E i \in 1..Len(h) : SendFindConv(i)
  \/ \E i \in 1..Len(h) : SendSaveConv(i)
  \/ \E i \in 1..Len(h) : SendUnreadUpdate(i)
  \/ \E i \in 1..Len(h) : SendReread(i)
  \/ \E i \in 1..Len(h) : SendEmit(i)
  \/ \E i \in 1..Len(h) : SendTimerUpdate(i)
  \/ \E i \in 1..Len(h) : SendTimerEmit(i)
  \/ \E i \in 1..Len(h) : RestSendFindConv(i)
  \/ \E i \in 1..Len(h) : RestSendSaveMsg(i)
  \/ \E i \in 1..Len(h) : RestSendSaveConv(i)
  \/ \E i \in 1..Len(h) : RestSendReread(i)

SpecSenders == Init /\ [][NextSenders]_vars

\* the counters alone: a sends to b, and b reads one message or all of them
NextCounters ==
  \/ SendStart("a", "c1", Hi)
  \/ \E m \in Known : ReadStart("b", "c1", m)
  \/ MarkAllStart("b", "c1")
  \/ \E i \in 1..Len(h) : SendSaveMsg(i)
  \/ \E i \in 1..Len(h) : SendFindConv(i)
  \/ \E i \in 1..Len(h) : SendSaveConv(i)
  \/ \E i \in 1..Len(h) : SendUnreadUpdate(i)
  \/ \E i \in 1..Len(h) : SendReread(i)
  \/ \E i \in 1..Len(h) : SendEmit(i)
  \/ \E i \in 1..Len(h) : SendTimerUpdate(i)
  \/ \E i \in 1..Len(h) : SendTimerEmit(i)
  \/ \E i \in 1..Len(h) : ReadFindMsg(i)
  \/ \E i \in 1..Len(h) : ReadSaveMsg(i)
  \/ \E i \in 1..Len(h) : ReadEmitStatus(i)
  \/ \E i \in 1..Len(h) : ReadFindConv(i)
  \/ \E i \in 1..Len(h) : ReadSaveConv(i)
  \/ \E i \in 1..Len(h) : ReadUnreadUpdates(i)
  \/ \E i \in 1..Len(h) : MarkAllUpdateMany(i)
  \/ \E i \in 1..Len(h) : MarkAllFindConv(i)
  \/ \E i \in 1..Len(h) : MarkAllSaveConv(i)
  \/ \E i \in 1..Len(h) : MarkAllUnreadUpdates(i)

SpecCounters == InitJoined /\ [][NextCounters]_vars

\* creation alone: a and x ask for conversations over REST
Creators == {"a", "x"}
CreateBodies ==
  {Body(FALSE, <<>>, ""), Body(FALSE, <<>>, "a"), Body(FALSE, <<>>, "b"),
   Body(FALSE, <<>>, "x"), Body(TRUE, <<>>, ""), Body(TRUE, <<"b">>, ""),
   Body(TRUE, <<"x", "x">>, ""), Body(TRUE, <<"a", "b">>, ""),
   Body(TRUE, <<"b", "x">>, "")}
NextCreate ==
  \/ \E u \in Creators, body \in CreateBodies : CreateStart(u, body)
  \/ \E i \in 1..Len(h) : CreateFindOne(i)
  \/ \E i \in 1..Len(h) : CreateSave(i)

SpecCreate == Init /\ [][NextCreate]_vars

\* failures alone: a sends while store operations may fail, and a and b emit
\* events without a payload
FailingSockets == {"a", "b"}
NextFailing ==
  \/ \E s \in FailingSockets, ev \in ClientEvents : MalformedEvent(s, ev)
  \/ SendStart("a", "c1", Hi)
  \/ \E i \in 1..Len(h) : SendSaveMsg(i)
  \/ \E i \in 1..Len(h) : SendFindConv(i)
  \/ \E i \in 1..Len(h) : SendSaveConv(i)
  \/ \E i \in 1..Len(h) : SendUnreadUpdate(i)
  \/ \E i \in 1..Len(h) : SendReread(i)
  \/ \E i \in 1..Len(h) : SendEmit(i)
  \/ \E i \in 1..Len(h) : SendTimerUpdate(i)
  \/ \E i \in 1..Len(h) : SendTimerEmit(i)
  \/ \E i \in 1..Len(h) : SendStoreFault(i)

SpecFailing == Init /\ [][NextFailing]_vars

\* two conversations: c1 of a and b, and c2 of x and b, in which x has sent
\* MaxPre messages that b received and has not read; all three are connected
\* and have joined the rooms of their conversations
InitCross ==
  /\ sess = [s \in Sockets |-> IF s = "b2" THEN "none" ELSE "up"]
  /\ connectedUsers = [u \in Users |-> u]
  /\ isOnline = [u \in Users |-> TRUE]
  /\ userUpdated = {}
  /\ typingUsers = <<>>
  /\ timers = <<>>
  /\ now = 0
  /\ beats = 0
  /\ rooms = [c \in ConvIds \cup {"c2"} |->
               IF c = "c1" THEN {"a", "b"} ELSE IF c = "c2" THEN {"x", "b"} ELSE {}]
  /\ scan = [s \in Sockets |->
              [pc |-> IF s = "b2" THEN "idle" ELSE "done", todo |-> <<>>, pending |-> {}]]
  /\ msgs = [m \in MsgIds |->
               IF m <= MaxPre
               THEN [NewMessage("c2", "x", Hi) EXCEPT !.status = "delivered", !.pos = m]
               ELSE NoMsg]
  /\ convs = [c \in {"c1", "c2"} |->
               IF c = "c1" THEN [NewConversation(<<"a", "b">>) EXCEPT !.pos = 1]
               ELSE [NewConversation(<<"x", "b">>) EXCEPT
                       !.pos = 2,
                       !.lastMessage = MaxPre,
                       !.lastMessageContent = IF MaxPre = 0 THEN Empty ELSE Hi,
                       !.unreadCount = [u \in {"x", "b"} |-> IF u = "b" THEN MaxPre ELSE 0]]]
  /\ h = <<>>
  /\ outbox = [status |-> [m \in MsgIds |-> <<>>], new |-> <<>>, user |-> <<>>,
               typing |-> <<>>]
  /\ faults = 0

\* a sends in c1, and b reads, naming either conversation in the payload
CrossConvs == {"c1", "c2"}
NextCross ==
  \/ SendStart("a", "c1", Hi)
  \/ \E c \in CrossConvs, m \in Known : ReadStart("b", c, m)
  \/ \E i \in 1..Len(h) : SendSaveMsg(i)
  \/ \E i \in 1..Len(h) : SendFindConv(i)
  \/ \E i \in 1..Len(h) : SendSaveConv(i)
  \/ \E i \in 1..Len(h) : SendUnreadUpdate(i)
  \/ \E i \in 1..Len(h) : SendReread(i)
  \/ \E i \in 1..Len(h) : SendEmit(i)
  \/ \E i \in 1..Len(h) : SendTimerUpdate(i)
  \/ \E i \in 1..Len(h) : SendTimerEmit(i)
  \/ \E i \in 1..Len(h) : ReadFindMsg(i)
  \/ \E i \in 1..Len(h) : ReadSaveMsg(i)
  \/ \E i \in 1..Len(h) : ReadEmitStatus(i)
  \/ \E i \in 1..Len(h) : ReadFindConv(i)
  \/ \E i \in 1..Len(h) : ReadSaveConv(i)
  \/ \E i \in 1..Len(h) : ReadUnreadUpdates(i)

SpecCross == InitCross /\ [][NextCross]_vars

\* rooms: any connected socket may ask to join the room of c1, while a sends
\* and types there and b reads
Joiners == {"b", "x"}
NextRooms ==
  \/ \E s \in Joiners : JoinConversation(s, "c1")
  \/ SendStart("a", "c1", Hi)
  \/ \E m \in Known : ReadStart("b", "c1", m)
  \/ \E isTyping \in BOOLEAN : Typing("a", "c1", isTyping)
  \/ TypingTimerFire
  \/ Tick
  \/ \E i \in 1..Len(h) : SendSaveMsg(i)
  \/ \E i \in 1..Len(h) : SendFindConv(i)
  \/ \E i \in 1..Len(h) : SendSaveConv(i)
  \/ \E i \in 1..Len(h) : SendUnreadUpdate(i)
  \/ \E i \in 1..Len(h) : SendReread(i)
  \/ \E i \in 1..Len(h) : SendEmit(i)
  \/ \E i \in 1..Len(h) : SendTimerUpdate(i)
  \/ \E i \in 1..Len(h) : SendTimerEmit(i)
  \/ \E i \in 1..Len(h) : ReadFindMsg(i)
  \/ \E i \in 1..Len(h) : ReadSaveMsg(i)
  \/ \E i \in 1..Len(h) : ReadEmitStatus(i)
  \/ \E i \in 1..Len(h) : ReadFindConv(i)
  \/ \E i \in 1..Len(h) : ReadSaveConv(i)
  \/ \E i \in 1..Len(h) : ReadUnreadUpdates(i)

SpecRooms == Init /\ [][NextRooms]_vars

\* leaving: a and b type in c1 and may leave its room; the event loop runs
\* every timeout that is due, and time passes
NextLeaving ==
  \/ \E s \in TypingSockets, isTyping \in BOOLEAN : Typing(s, "c1", isTyping)
  \/ \E s \in TypingSockets : LeaveConversation(s, "c1")
  \/ TypingTimerFire
  \/ Tick

SpecLeaving ==
  Init /\ [][NextLeaving]_vars /\ WF_vars(TypingTimerFire) /\ WF_vars(Tick)

\* authentication: clients present good and bad tokens on the two sockets of
\* b, and the sessions that are let in connect and disconnect
NextAuth ==
  \/ \E s \in PresenceSockets : \E tok \in TokensOf(s) : Handshake(s, tok)
  \/ \E s \in PresenceSockets : ConnectUpdate(s)
  \/ \E s \in PresenceSockets : ConnectResume(s)
  \/ \E s \in PresenceSockets : ScanList(s)
  \/ \E s \in PresenceSockets : Disconnect(s)
  \/ \E s \in PresenceSockets : DisconnectUpdate(s)
  \/ \E s \in PresenceSockets : DisconnectResume(s)
  \/ \E s \in PresenceSockets : ScanFind(s)
  \/ \E s \in PresenceSockets : ScanUpdate(s)
  \/ \E s \in PresenceSockets : ScanEmit(s)

SpecAuth == Init /\ [][NextAuth]_vars

\* c1 of a and b holds k messages that a sent over the socket while b was
\* away; with two, c2 of x and b holds MaxPre messages that x sent over REST.
\* a is connected and has joined c1; b and x are not connected.
InitScan ==
  \E k \in 0..MaxPre, two \in BOOLEAN :
    /\ sess = [s \in Sockets |-> IF s = "a" THEN "up" ELSE "none"]
    /\ connectedUsers = [u \in {"a"} |-> u]
    /\ isOnline = [u \in Users |-> u = "a"]
    /\ userUpdated = {}
    /\ typingUsers = <<>>
    /\ timers = <<>>
    /\ now = 0
    /\ beats = 0
    /\ rooms = [c \in ConvIds \cup {"c2"} |-> IF c = "c1" THEN {"a"} ELSE {}]
    /\ scan = [s \in Sockets |->
                [pc |-> IF s = "a" THEN "done" ELSE "idle", todo |-> <<>>, pending |-> {}]]
    /\ msgs = [m \in MsgIds |->
                IF m <= k THEN [NewMessage("c1", "a", Hi) EXCEPT !.pos = m]
                ELSE IF two /\ m <= k + MaxPre
                THEN [NewMessage("c2", "x", Hi) EXCEPT !.pos = m]
                ELSE NoMsg]
    /\ convs = IF two
               THEN [c \in {"c1", "c2"} |->
                       IF c = "c1" THEN InitConvs(k)["c1"]
                       ELSE [NewConversation(<<"x", "b">>) EXCEPT
                               !.pos = 2,
                               !.lastMessage = k + MaxPre,
                               !.lastMessageContent = IF MaxPre = 0 THEN Empty ELSE Hi,
                               !.unreadCount =
                                 [u \in {"x", "b"} |-> IF u = "b" THEN MaxPre ELSE 0]]]
               ELSE InitConvs(k)
    /\ h = <<>>
    /\ outbox = [status |-> [m \in MsgIds |-> <<>>], new |-> <<>>, user |-> <<>>,
                 typing |-> <<>>]
    /\ faults = 0

\* the scan alone: b, on either device, and x connect, and the sender a may
\* disconnect meanwhile
ScanSockets == {"b", "b2", "x"}
NextScan ==
  \/ \E s \in ScanSockets : Connect(s)
  \/ \E s \in ScanSockets : ConnectUpdate(s)
  \/ \E s \in ScanSockets : ConnectResume(s)
  \/ \E s \in ScanSockets : ScanList(s)
  \/ \E s \in ScanSockets : ScanFind(s)
  \/ \E s \in ScanSockets : ScanUpdate(s)
  \/ \E s \in ScanSockets : ScanEmit(s)
  \/ Disconnect("a")
  \/ DisconnectUpdate("a")
  \/ DisconnectResume("a")

SpecScan == InitScan /\ [][NextScan]_vars

\* a has sent MaxPre + 1 messages to b, who is connected and has joined c1,
\* and b's client has emitted message:read for the first of them: the handler
\* has saved the message and told the room, and is suspended at its
\* Conversation.findById
InitRemark ==
  /\ sess = [s \in Sockets |-> IF s = "b2" THEN "none" ELSE "up"]
  /\ connectedUsers = [u \in Users |-> u]
  /\ isOnline = [u \in Users |-> TRUE]
  /\ userUpdated = {}
  /\ typingUsers = <<>>
  /\ timers = <<>>
  /\ now = 0
  /\ beats = 0
  /\ rooms = [c \in ConvIds |-> IF c = "c1" THEN {"a", "b"} ELSE {}]
  /\ scan = [s \in Sockets |->
              [pc |-> IF s = "b2" THEN "idle" ELSE "done", todo |-> <<>>, pending |-> {}]]
  /\ msgs = [m \in MsgIds |->
              IF m = 1
              THEN [NewMessage("c1", "a", Hi) EXCEPT
                      !.status = "read", !.isRead = TRUE, !.readAt = 1,
                      !.readBy = <<"b">>, !.pos = 1]
              ELSE IF m <= MaxPre + 1
              THEN [NewMessage("c1", "a", Hi) EXCEPT !.status = "delivered", !.pos = m]
              ELSE NoMsg]
  /\ convs = InitConvs(MaxPre + 1)
  /\ h = <<[Blank EXCEPT !.kind = "read", !.u = "b", !.c = "c1", !.m = 1,
                         !.pc = "findConv", !.ldStatus = "delivered", !.pre = TRUE]>>
  /\ outbox = [status |-> [m \in MsgIds |->
                            IF m = 1
                            THEN <<Ev("message:status", {"a", "b"}, 1, "c1", 1, "read", 0)>>
                            ELSE <<>>],
               new |-> <<>>, user |-> <<>>, typing |-> <<>>]
  /\ faults = 0

\* marking again: a and b emit conversation:markAllRead for c1 while the
\* message:read of b runs on
NextRemark ==
  \/ \E u \in Readers : MarkAllStart(u, "c1")
  \/ \E i \in 1..Len(h) : ReadFindConv(i)
  \/ \E i \in 1..Len(h) : ReadSaveConv(i)
  \/ \E i \in 1..Len(h) : ReadUnreadUpdates(i)
  \/ \E i \in 1..Len(h) : MarkAllUpdateMany(i)
  \/ \E i \in 1..Len(h) : MarkAllFindConv(i)
  \/ \E i \in 1..Len(h) : MarkAllSaveConv(i)
  \/ \E i \in 1..Len(h) : MarkAllUnreadUpdates(i)

SpecRemark == InitRemark /\ [][NextRemark]_vars

\* ================================================================= claims
Handlers == 1..Len(h)
Done(i) == h[i].pc = "done"

\* the handler i took a step: it resumed from its await (a handler that the
\* exit of the process aborts did not)
Stepped(i) == h'[i] # h[i] /\ h'[i].res # "aborted"

\* every emission recorded so far
Emitted ==
  UNION {SeqToSet(outbox.status[m]) : m \in MsgIds}
    \cup SeqToSet(outbox.new) \cup SeqToSet(outbox.user) \cup SeqToSet(outbox.typing)
    \cup UNION {SeqToSet(h[i].out) : i \in Handlers}

\* what handler i has emitted with event name ev
EmittedBy(i, ev) == {e \in Emitted : e.op = i /\ e.ev = ev}

\* no handler, scan, connection or disconnection is suspended at an await
Quiescent ==
  /\ \A i \in Handlers : Done(i)
  /\ \A s \in Sockets : scan[s].pc \in {"idle", "done"}
  /\ \A s \in Sockets : sess[s] \in {"none", "up", "closed"}

\* String.prototype.trim on the characters of a content
RECURSIVE TrimStart(_)
TrimStart(s) == IF s # <<>> /\ Head(s) = " " THEN TrimStart(Tail(s)) ELSE s
RECURSIVE TrimEnd(_)
TrimEnd(s) ==
  IF s # <<>> /\ s[Len(s)] = " " THEN TrimEnd(SubSeq(s, 1, Len(s) - 1)) ELSE s
Trim(s) == TrimEnd(TrimStart(s))

\* the caller of handler i is a participant of the stored conversation it names
Participant(i) ==
  ConvExists(h[i].c) /\ Includes(convs[h[i].c].participants, h[i].u)

\* so far no store operation failed and every message event or request came
\* from a participant of the conversation it names, with a content that is not blank
CleanRun ==
  /\ faults = 0
  /\ \A i \in Handlers :
       /\ h[i].kind \in {"send", "read", "markAll", "restSend", "restRead"} => Participant(i)
       /\ h[i].kind \in {"send", "restSend"} => Trim(h[i].content) # <<>>

StatusRank(st) == CASE st = "sent" -> 0 [] st = "delivered" -> 1 [] st = "read" -> 2

\* C1: in every step of every interleaving, the stored status of a message
\* does not move backwards along sent -> delivered -> read.
C1_StatusNeverMovesBack ==
  [][CleanRun' =>
       \A m \in MsgIds :
         Stored(m) => StatusRank(msgs'[m].status) >= StatusRank(msgs[m].status)]_vars

\* the messages p has not read: sent by somebody else, p not in readBy
UnreadFor(c, p) ==
  {m \in MsgIds : Stored(m) /\ msgs[m].conv = c /\ msgs[m].sender # p
                  /\ ~Includes(msgs[m].readBy, p)}

\* C2: once every operation has completed, each participant's unreadCount
\* equals the number of messages of the conversation that the participant
\* did not send and has not read (already in runs where nothing failed and
\* only participants acted).
C2_UnreadCountIsUnreadMessages ==
  (Quiescent /\ CleanRun) =>
    \A c \in DOMAIN convs : \A p \in SeqToSet(convs[c].participants) :
      MapGet(convs[c].unreadCount, p) = Cardinality(UnreadFor(c, p))

\* C3: when the recipient's message:read has been processed and has emitted
\* message:status read, the deferred timer of that message emits no
\* message:status delivered afterwards: the sender gets the read and no
\* delivered.
C3_NoDeliveredAfterRead ==
  CleanRun =>
    \A m \in MsgIds : \A j \in 1..Len(outbox.status[m]) : \A k \in 1..Len(outbox.status[m]) :
      (j < k /\ outbox.status[m][j].st = "read")
        => ~(outbox.status[m][k].st = "delivered" /\ outbox.status[m][k].op # 0)

\* message:read handler i found the message already read by its reader
LoadedAlreadyRead(i) ==
  /\ h[i].kind = "read"
  /\ h[i].pc \in {"saveMsg", "savedMsg", "findConv", "saveConv", "savedConv"}
  /\ h[i].ldStatus = "read" /\ h[i].ldIsRead /\ h[i].ldHas

\* C4: a message:read for a message its reader has already read changes
\* neither the message (status, isRead, readBy, readAt) nor any unreadCount.
C4_SecondReadChangesNothing ==
  [][\A i \in Handlers :
       (CleanRun' /\ LoadedAlreadyRead(i) /\ Stepped(i)) =>
         /\ msgs'[h[i].m] = msgs[h[i].m]
         /\ \A c \in DOMAIN convs : convs'[c].unreadCount = convs[c].unreadCount]_vars

\* C5: the message:new events of one sender session are emitted in the order
\* in which that session's message:send events arrived.
C5_NewInSendOrder ==
  CleanRun =>
    \A j \in 1..Len(outbox.new) : \A k \in 1..Len(outbox.new) :
      (j < k /\ h[outbox.new[j].op].u = h[outbox.new[k].op].u)
        => outbox.new[j].op < outbox.new[k].op

\* C6: a send of a participant (or to a conversation that does not exist)
\* that ended in message:error because a store step failed left nothing behind: no message is
\* stored, the conversation does not point at it, and message:error, to the
\* sender only, is all it emitted.
C6_FailedSendLeavesNothing ==
  \A i \in Handlers :
    (/\ h[i].kind = "send" /\ Done(i) /\ h[i].res = "error"
     /\ Trim(h[i].content) # <<>>
     /\ (ConvExists(h[i].c) => Participant(i))) =>
      /\ ~Stored(h[i].m)
      /\ \A c \in DOMAIN convs : convs[c].lastMessage # h[i].m
      /\ \A e \in Emitted : e.op = i => (e.ev = "message:error" /\ e.to \subseteq {h[i].u})

\* C7: a message:send whose content trims to the empty string stores no
\* message, changes no conversation, emits nothing to the room, and ends
\* with message:error to the sender.
C7_BlankContentRejected ==
  [][\A i \in Handlers :
       (h[i].kind = "send" /\ Trim(h[i].content) = Empty /\ Stepped(i)) =>
         /\ msgs' = msgs /\ convs' = convs /\ outbox' = outbox
         /\ h'[i].pc = "done" => h'[i].res = "error"]_vars

\* C8: a message:send to a conversation the caller does not belong to stores
\* no message, changes no counter, emits nothing to the room, and ends with
\* message:error to the caller.
C8_OutsiderSendDropped ==
  [][\A i \in Handlers :
       (/\ h[i].kind = "send" /\ ConvExists(h[i].c)
        /\ ~Includes(convs[h[i].c].participants, h[i].u) /\ Stepped(i)) =>
         /\ msgs' = msgs /\ convs' = convs /\ outbox' = outbox
         /\ h'[i].pc = "done" => h'[i].res = "error"]_vars

\* C9: the bulk update of conversation:markAllRead leaves every message it
\* hits as a message:read by the caller would (status read, isRead, caller in
\* readBy, readAt set), and its conversation save leaves the caller's count 0.
C9_MarkAllReadsLikeRead ==
  [][\A i \in Handlers : CleanRun' =>
       /\ (h[i].kind = "markAll" /\ h[i].pc = "updateMany" /\ Stepped(i)) =>
            \A m \in UnreadInbound(h[i].c, h[i].u) :
              /\ msgs'[m].status = "read" /\ msgs'[m].isRead
              /\ Includes(msgs'[m].readBy, h[i].u) /\ msgs'[m].readAt # 0
       /\ (h[i].kind = "markAll" /\ h[i].pc = "saveConv" /\ Stepped(i)) =>
            MapGet(convs'[h[i].c].unreadCount, h[i].u) = 0]_vars

\* C10: a completed conversation:markAllRead has emitted one message:status
\* read per message it transitioned, and one conversation:unreadUpdate per
\* participant with a socket, carrying the counters it saved.
C10_MarkAllEmitsPerMessage ==
  \A i \in Handlers :
    (CleanRun /\ h[i].kind = "markAll" /\ Done(i) /\ h[i].res = "markedAll") =>
      /\ Cardinality({e \in EmittedBy(i, "message:status") : e.st = "read"}) = h[i].n
      /\ \A e \in SeqToSet(h[i].out) : e.ev = "conversation:unreadUpdate"

\* handler i is a conversation:markAllRead that arrived after a
\* conversation:markAllRead of the same user on the same conversation had
\* returned, and no send to the conversation arrived between the two
SecondMarkAll(i) == h[i].kind = "markAll" /\ h[i].again

\* C11: no step of a second conversation:markAllRead by the same user on the
\* same conversation, with no send in between, changes a message or emits a
\* message:status, and when it returns the user's unreadCount is 0.
C11_SecondMarkAllChangesNothing ==
  [][\A i \in Handlers :
       (SecondMarkAll(i) /\ Stepped(i)) =>
         /\ msgs' = msgs
         /\ outbox'.status = outbox.status
         /\ h'[i].pc = "done" => MapGet(convs'[h[i].c].unreadCount, h[i].u) = 0]_vars

\* send handler i has returned without scheduling the delivered timer: the
\* recipient had no connectedUsers entry at line 224
NoTimer(i) == h[i].kind = "send" /\ Done(i) /\ h[i].res = "sent"

\* the recipient of send i has connected since the send arrived
ConnectedSince(i) ==
  \E k \in Handlers : k > i /\ h[k].kind = "connect" /\ h[k].u = h[i].other

\* the recipient of send i has asked to read (one message or all)
ReadAsked(i) ==
  \E k \in Handlers :
    h[k].kind \in {"read", "markAll", "restRead"} /\ h[k].u = h[i].other

\* C12: a message sent while the recipient had no presence entry stays in
\* status sent, and no message:status is emitted for it, as long as the
\* recipient has neither connected since nor read.
C12_StaysSentWhileRecipientAway ==
  \A i \in Handlers :
    (CleanRun /\ NoTimer(i) /\ ~ConnectedSince(i) /\ ~ReadAsked(i)) =>
      /\ msgs[h[i].m].status = "sent"
      /\ outbox.status[h[i].m] = <<>>

\* the message:status events of message m added by the step
NewStatus(m) ==
  SubSeq(outbox'.status[m], Len(outbox.status[m]) + 1, Len(outbox'.status[m]))

\* the messages of conversation c that wait for user u: stored, not sent by
\* u, status sent
SentInbound(c, u) ==
  {m \in MsgIds : Stored(m) /\ msgs[m].conv = c /\ msgs[m].sender # u
                    /\ msgs[m].status = "sent"}

\* the conversations user u is a participant of
Mine(u) == {c \in DOMAIN convs : Includes(convs[c].participants, u)}

\* the scan of socket s goes on to the next conversation of its list, or ends
ScanMovesOn(s) ==
  IF Tail(scan[s].todo) = <<>> THEN scan'[s].pc = "done"
  ELSE scan'[s].pc = "find" /\ scan'[s].todo = Tail(scan[s].todo)

\* C13: the connection handler of a user starts a scan that visits every
\* conversation of the user once; in each, its find collects every message
\* not sent by the user that has status sent, its update makes each of them
\* delivered and changes no other message, and once the update has resolved
\* it emits one message:status delivered per collected message to the
\* session of the sender's presence entry, and none for a sender without
\* one; no step of the scan changes a conversation.
C13_ScanDeliversPending ==
  [][\A s \in Sockets :
       /\ (sess[s] = "connecting" /\ sess'[s] = "up") =>
            scan[s].pc = "idle" /\ scan'[s].pc = "list"
       /\ (scan[s].pc = "list" /\ scan'[s] # scan[s]) =>
            /\ msgs' = msgs /\ convs' = convs /\ outbox' = outbox
            /\ IF Mine(UserOf(s)) = {} THEN scan'[s].pc = "done"
               ELSE /\ scan'[s].pc = "find"
                    /\ SeqToSet(scan'[s].todo) = Mine(UserOf(s))
                    /\ Len(scan'[s].todo) = Cardinality(Mine(UserOf(s)))
       /\ (scan[s].pc = "find" /\ scan'[s] # scan[s]) =>
            /\ msgs' = msgs /\ convs' = convs /\ outbox' = outbox
            /\ LET want == SentInbound(Head(scan[s].todo), UserOf(s))
               IN  IF want = {} THEN ScanMovesOn(s)
                   ELSE /\ scan'[s].pc = "update" /\ scan'[s].pending = want
                        /\ scan'[s].todo = scan[s].todo
       /\ (scan[s].pc = "update" /\ scan'[s] # scan[s]) =>
            /\ convs' = convs /\ outbox' = outbox
            /\ scan'[s] = [scan[s] EXCEPT !.pc = "updated"]
            /\ \A m \in MsgIds :
                 IF m \in scan[s].pending THEN msgs'[m].status = "delivered"
                 ELSE msgs'[m] = msgs[m]
       /\ (scan[s].pc = "updated" /\ scan'[s] # scan[s]) =>
            /\ msgs' = msgs /\ convs' = convs
            /\ ScanMovesOn(s)
            /\ \A m \in MsgIds :
                 IF m \in scan[s].pending /\ msgs[m].sender \in DOMAIN connectedUsers
                 THEN /\ Len(NewStatus(m)) = 1
                      /\ NewStatus(m)[1].st = "delivered"
                      /\ NewStatus(m)[1].to \subseteq {connectedUsers[msgs[m].sender]}
                 ELSE NewStatus(m) = <<>>]_vars

\* a scan has visited two conversations: in one it has made a message
\* delivered and told its sender, in the other it has made a message
\* delivered whose sender had no presence entry, and told nobody
C13_Witness ==
  /\ \E m \in MsgIds :
       /\ Stored(m) /\ msgs[m].conv = "c1" /\ msgs[m].status = "delivered"
       /\ \E k \in 1..Len(outbox.status[m]) :
            outbox.status[m][k].op = 0 /\ outbox.status[m][k].to = {msgs[m].sender}
  /\ \E m \in MsgIds :
       /\ Stored(m) /\ msgs[m].conv = "c2" /\ msgs[m].status = "delivered"
       /\ outbox.status[m] = <<>> /\ ~HasSocketId(msgs[m].sender)
  /\ \A s \in Sockets : scan[s].pc \in {"idle", "done"}

\* C14: a send to a recipient that has a presence entry ends with the stored
\* status delivered (or beyond) and message:status delivered emitted to the
\* sender's session, and its conversation save makes the recipient's stored
\* unreadCount exactly one more than it was.
C14_DeliveredAndCountedOnce ==
  [][\A i \in Handlers : (CleanRun' /\ h[i].kind = "send" /\ Stepped(i)) =>
       /\ (h[i].pc = "saveConv" /\ HasSocketId(h[i].other)) =>
            MapGet(convs'[h[i].c].unreadCount, h[i].other)
              = MapGet(convs[h[i].c].unreadCount, h[i].other) + 1
       /\ (h[i].pc = "populated" /\ h'[i].pc # "done") => RecipientOnline(i)
       /\ (h[i].pc = "populated" /\ RecipientOnline(i)) => h'[i].pc = "timer"
       /\ (h[i].pc = "timer") => msgs'[h[i].m].status = "delivered"
       /\ (h[i].pc = "timerEmit") =>
            /\ NewStatus(h[i].m) # <<>>
            /\ NewStatus(h[i].m)[1].st = "delivered"
            /\ NewStatus(h[i].m)[1].to = ToSocket(h[i].u)]_vars

\* the step is the run of a typing timeout (the exit of the process drops the
\* timeouts without running them, and closes the sessions)
TimerRuns == timers # <<>> /\ timers' = Tail(timers) /\ sess' = sess

\* C15: a typing timeout removes a user's entry and tells the room false only
\* once TypingTimeout seconds have passed since that user's last heartbeat.
C15_ExpiryCountsFromLastHeartbeat ==
  [][\A c \in ConvIds : \A u \in DOMAIN TypingIn(typingUsers, c) :
       (TimerRuns /\ u \notin DOMAIN TypingIn(typingUsers', c)) =>
         now - TypingIn(typingUsers, c)[u] >= TypingTimeout]_vars

\* the step is the disconnect handler of session s, up to its first await
Disconnects(s) == sess[s] = "up" /\ sess'[s] = "closing"

\* the user:typing events the step has emitted
NewTyping == SubSeq(outbox'.typing, Len(outbox.typing) + 1, Len(outbox'.typing))

\* C16: when a session disconnects while its user has a typing entry for a
\* conversation, the step emits user:typing false for that conversation
\* exactly once, to the rest of the room.
C16_DisconnectStopsTyping ==
  [][\A s \in Sockets : \A c \in ConvIds :
       (Disconnects(s) /\ UserOf(s) \in DOMAIN TypingIn(typingUsers, c)) =>
         /\ Len(SelectSeq(NewTyping, LAMBDA e : e.c = c /\ e.st = "false")) = 1
         /\ \A k \in 1..Len(NewTyping) :
              NewTyping[k].c = c => NewTyping[k].to = rooms[c] \ {s}]_vars

\* the sessions of user u whose connection handler has run and that are open
LiveSessions(u) == {s \in Sockets : UserOf(s) = u /\ sess[s] = "up"}

\* C17: while a user has a connected session whose connection handler has
\* run, connectedUsers has an entry for the user and the entry names a
\* session that is still connected.
C17_OnlineWhileASessionLives ==
  \A u \in Users :
    LiveSessions(u) # {} =>
      /\ HasSocketId(u)
      /\ sess[connectedUsers[u]] \in {"connecting", "up"}

\* the sessions of user u that are connected, with or without listeners
OpenSessions(u) == {s \in Sockets : UserOf(s) = u /\ sess[s] \in {"connecting", "up"}}

\* the user:status events the step has emitted
NewUserStatus == SubSeq(outbox'.user, Len(outbox.user) + 1, Len(outbox'.user))

\* C18: user:status online is emitted for a user only when the user had no
\* session whose handler had run, and user:status offline only when no
\* session of the user remains connected.
C18_StatusOnlyOnTransitions ==
  [][\A u \in Users : \A k \in 1..Len(NewUserStatus) :
       NewUserStatus[k].c = u =>
         /\ NewUserStatus[k].st = "online" => LiveSessions(u) = {}
         /\ NewUserStatus[k].st = "offline" => OpenSessions(u)' = {}]_vars

\* no connection or disconnect handler is suspended at its User write
PresenceSettled == \A s \in Sockets : sess[s] \in {"none", "up", "closed"}

\* C19: once the handlers have run, a user with no connected session has no
\* registry entry and a stored isOnline of false.
C19_OfflineWithoutSessions ==
  \A u \in Users :
    (PresenceSettled /\ OpenSessions(u) = {}) => (~HasSocketId(u) /\ ~isOnline[u])

\* C20: once no connection or disconnect handler is suspended at its User
\* write, a user has a connectedUsers entry exactly when the stored isOnline
\* of the user is true.
C20_StoredFlagMatchesRegistry ==
  PresenceSettled => \A u \in Users : HasSocketId(u) <=> isOnline[u]

\* the three failure categories of the handshake
BadToken(tok) == ~tok.present \/ tok.fault # "" \/ tok.id \notin Users

\* C21: a handshake whose token is missing, fails verification or names a
\* user that does not exist is answered with an error and changes nothing:
\* the socket stays unconnected (no listener is ever registered on it), no
\* presence entry is created, the stored isOnline flags are unchanged, no
\* scan is started and nothing is emitted.
C21_RejectedHandshakeChangesNothing ==
  [][\A s \in Sockets : \A tok \in TokensOf(s) :
       (BadToken(tok) /\ Handshake(s, tok)) =>
         /\ h'[Len(h')].kind = "handshake" /\ h'[Len(h')].res # ""
         /\ sess'[s] = "none"
         /\ UNCHANGED <<sess, connectedUsers, isOnline, scan, rooms, outbox,
                        msgs, convs, typingUsers>>]_vars
C21_Witness ==
  /\ \E i \in Handlers : h[i].kind = "handshake" /\ h[i].u = "ghost" /\ h[i].res # ""
  /\ \E i \in Handlers : h[i].kind = "handshake" /\ h[i].res = AuthError(NoToken)
  /\ sess["b"] = "none" /\ ~HasSocketId("b") /\ ~isOnline["b"]

\* the handshakes refused so far
Refused == {i \in Handlers : h[i].kind = "handshake" /\ h[i].res # ""}

\* C22: every refused handshake is answered with the same error value,
\* whatever the reason of the refusal.
C22_OneOpaqueError ==
  \A i \in Refused : \A j \in Refused : h[i].res = h[j].res

\* C23: in every reachable state, no stored message has its sender in readBy.
C23_SenderNeverInReadBy ==
  \A m \in MsgIds : Stored(m) => ~Includes(msgs[m].readBy, msgs[m].sender)
C23_Witness ==
  /\ \E i \in Handlers :
       /\ h[i].kind \in {"read", "restRead"} /\ Done(i)
       /\ Stored(h[i].m) /\ msgs[h[i].m].sender = h[i].u
  /\ \E i \in Handlers :
       /\ h[i].kind = "markAll" /\ Done(i)
       /\ \E m \in MsgIds : Stored(m) /\ msgs[m].conv = h[i].c /\ msgs[m].sender = h[i].u

\* C24: a step of a send handler, over the socket or over REST, changes no
\* unreadCount entry but that of the other participant of the conversation it
\* names, which is never the sender's, and never increases the sender's.
C24_SendLeavesSenderCounter ==
  [][\A i \in Handlers :
       (h[i].kind \in {"send", "restSend"} /\ Stepped(i)) =>
         \A c \in DOMAIN convs :
           /\ MapGet(convs'[c].unreadCount, h[i].u) <= MapGet(convs[c].unreadCount, h[i].u)
           /\ \A p \in DOMAIN convs'[c].unreadCount \cup DOMAIN convs[c].unreadCount :
                MapGet(convs'[c].unreadCount, p) # MapGet(convs[c].unreadCount, p) =>
                  c = h[i].c /\ p = h[i].other /\ p # h[i].u]_vars
C24_Witness ==
  /\ \E i \in Handlers : h[i].kind = "send" /\ h[i].u = "a" /\ h[i].res \in {"sent", "delivered"}
  /\ \E i \in Handlers : h[i].kind = "restSend" /\ h[i].res = "201"
  /\ MapGet(convs["c1"].unreadCount, "a") = 0
  /\ MapGet(convs["c1"].unreadCount, "b") > MaxPre

\* the run so far consists of message:read events and REST mark-read
\* requests only
OnlyReads == \A i \in Handlers : h[i].kind \in {"read", "restRead"}

\* the messages of c that went from unread to read for p during the run: all
\* stored messages were unread when it started
ReadSince(c, p) ==
  {m \in MsgIds : Stored(m) /\ msgs[m].conv = c /\ Includes(msgs[m].readBy, p)}

\* the messages of c that p did not send
InboundOf(c, p) ==
  {m \in MsgIds : Stored(m) /\ msgs[m].conv = c /\ msgs[m].sender # p}

\* C25: once every operation of a run of reads has completed, unreadCount[x]
\* has been decremented once for each message that went from unread to read
\* for x: it is the number of messages x had to read less those x read.
C25_OneDecrementPerRead ==
  (Quiescent /\ CleanRun /\ OnlyReads) =>
    \A c \in DOMAIN convs : \A p \in SeqToSet(convs[c].participants) :
      MapGet(convs[c].unreadCount, p) + Cardinality(ReadSince(c, p))
        = Cardinality(InboundOf(c, p))

\* C26: in every reachable state every unreadCount value of every
\* conversation is an integer that is not negative.
C26_CountersNeverNegative ==
  \A c \in DOMAIN convs : \A p \in DOMAIN convs[c].unreadCount :
    convs[c].unreadCount[p] \in Nat
C26_Witness ==
  /\ \E i \in Handlers : \E j \in Handlers :
       /\ i # j /\ h[i].kind = "read" /\ h[j].kind \in {"read", "markAll"}
       /\ h[i].u = "b" /\ h[j].u = "b"
       /\ h[i].res = "read" /\ Done(j) /\ Stored(h[i].m)
  /\ \E m \in MsgIds : Stored(m) /\ Includes(msgs[m].readBy, "b")
  /\ convs["c1"].unreadCount["b"] = 0

\* C27: the conversation with which an accepted creation request is
\* answered has exactly two distinct participants, one of them the caller.
C27_TwoDistinctParticipants ==
  \A i \in Handlers :
    (h[i].kind = "create" /\ h[i].res = "200") =>
      LET parts == convs[h[i].c].participants
      IN  /\ Len(parts) = 2
          /\ parts[1] # parts[2]
          /\ Includes(parts, h[i].u)

\* the caller of handler i is not a participant of the stored conversation
\* it names
Outsider(i) ==
  ConvExists(h[i].c) /\ ~Includes(convs[h[i].c].participants, h[i].u)

\* C28: no step of a message:read (of a stored message) or
\* conversation:markAllRead handler of a caller who is not a participant changes a message or a conversation or
\* emits message:status or conversation:unreadUpdate, and the handler ends
\* with message:error to the caller.
C28_OutsiderReadDropped ==
  [][\A i \in Handlers :
       (/\ h[i].kind \in {"read", "markAll"} /\ Outsider(i) /\ Stepped(i)
        /\ h[i].kind = "read" => Stored(h[i].m)) =>
         /\ msgs' = msgs
         /\ convs' = convs
         /\ outbox' = outbox
         /\ Done(i)' =>
              /\ h'[i].out # <<>>
              /\ \A k \in 1..Len(h'[i].out) : h'[i].out[k].ev = "message:error"]_vars

\* C29: every step of typing:start is a step of message:typing with isTyping
\* true, and every step of typing:stop one of message:typing with isTyping
\* false: the same entry, the same timeout and the same user:typing event.
C29_AliasesActLikeTyping ==
  [][\A s \in Sockets : \A c \in ConvIds :
       /\ TypingStart(s, c) => Typing(s, c, TRUE)
       /\ TypingStop(s, c) => Typing(s, c, FALSE)]_vars

\* C30: every step that stores or changes a message leaves it with
\* deliveredAt unset while its status is sent and set once the status is
\* delivered or read, and with readAt set exactly when the status is read.
C30_TimestampsFollowStatus ==
  [][\A m \in MsgIds :
       (CleanRun' /\ msgs'[m] # msgs[m]) =>
         /\ msgs'[m].status = "sent" => ~msgs'[m].deliveredAt
         /\ msgs'[m].status \in {"delivered", "read"} => msgs'[m].deliveredAt
         /\ msgs'[m].status = "read" <=> msgs'[m].readAt # 0]_vars

\* the run so far consists of message:send events that stored their message
\* and of message:read events that each marked a different message read
SendsAndReads ==
  /\ \A i \in Handlers :
       \/ h[i].kind = "send" /\ h[i].res \in {"sent", "delivered"}
       \/ h[i].kind = "read" /\ h[i].res = "read"
  /\ \A i \in Handlers : \A j \in Handlers :
       (i # j /\ h[i].kind = "read" /\ h[j].kind = "read") => h[i].m # h[j].m

\* C31: once the send and read handlers of a run have completed, however
\* they interleaved, the recipient's unreadCount is what running them one
\* after the other gives: one more per stored message, one less per message
\* read.
C31_NoLostCounterUpdate ==
  (Quiescent /\ CleanRun /\ SendsAndReads) =>
    \A p \in SeqToSet(convs["c1"].participants) :
      MapGet(convs["c1"].unreadCount, p)
        = Cardinality(InboundOf("c1", p)) - Cardinality(ReadSince("c1", p))

\* the number of times u occurs in the array s
RECURSIVE Occurrences(_, _)
Occurrences(s, u) ==
  IF s = <<>> THEN 0
  ELSE (IF Head(s) = u THEN 1 ELSE 0) + Occurrences(Tail(s), u)

\* C32: in every reachable state readBy of every message holds each user id
\* at most once.
C32_ReadByHasNoDuplicates ==
  \A m \in MsgIds : Stored(m) =>
    \A u \in Users : Occurrences(msgs[m].readBy, u) <= 1

\* C33: a client event that fails, through a store error or through a
\* missing payload, closes no session, the emitter's included, and changes
\* no presence entry and no room.
C33_FailingEventHarmsNoSession ==
  [][/\ \A s \in Sockets : \A ev \in ClientEvents :
          MalformedEvent(s, ev) => UNCHANGED <<sess, connectedUsers, rooms>>
     /\ \A i \in Handlers :
          (SendStoreFault(i)) => UNCHANGED <<sess, connectedUsers, rooms>>]_vars

\* C34: in every reachable state a stored message has isRead true exactly
\* when its status is read.
C34_IsReadIffStatusRead ==
  \A m \in MsgIds : Stored(m) => (msgs[m].isRead <=> msgs[m].status = "read")

\* the message:status delivered events for m, so far, that went to a socket
DeliveredSent(m) ==
  SelectSeq(outbox.status[m], LAMBDA e : e.st = "delivered" /\ e.to # {})

\* C35: for every message, at most one message:status delivered is sent to
\* the sender.
C35_OneDeliveredPerMessage ==
  CleanRun => \A m \in MsgIds : Len(DeliveredSent(m)) <= 1

\* handler i is a message:read whose payload names a conversation other than
\* the one its message belongs to
CrossRead(i) ==
  /\ h[i].kind = "read" /\ Stored(h[i].m)
  /\ msgs[h[i].m].conv # h[i].c

\* C36: no step of a message:read whose payload names another conversation
\* than the message's own changes a counter of the named conversation or
\* emits message:status to the room of the named conversation.
C36_ReadStaysInItsConversation ==
  [][\A i \in Handlers :
       (CrossRead(i) /\ Stepped(i) /\ ConvExists(h[i].c)) =>
         /\ convs'[h[i].c].unreadCount = convs[h[i].c].unreadCount
         /\ \A k \in 1..Len(NewStatus(h[i].m)) : NewStatus(h[i].m)[k].c # h[i].c]_vars

\* the messages of conversation c in the collection
MessagesOf(c) == {m \in MsgIds : Stored(m) /\ msgs[m].conv = c}

\* the message of conversation c that was inserted last
LastPersisted(c) ==
  CHOOSE m \in MessagesOf(c) : \A k \in MessagesOf(c) : msgs[k].pos <= msgs[m].pos

\* the run consists of message:send handlers of c1 that returned without error
OnlySends ==
  \A i \in Handlers : h[i].kind = "send" /\ h[i].c = "c1" /\ h[i].res \in {"sent", "delivered"}

\* C37: when every handler has returned and the run consisted of sends in
\* c1, the conversation's lastMessage is the message inserted last and
\* lastMessageContent is its content.
C37_LastMessageIsLatest ==
  (Quiescent /\ CleanRun /\ OnlySends /\ Len(h) > 0) =>
    /\ convs["c1"].lastMessage = LastPersisted("c1")
    /\ convs["c1"].lastMessageContent = msgs[LastPersisted("c1")].content

\* the message:new, message:status and user:typing events emitted so far
RoomEvents ==
  SeqToSet(outbox.new) \cup SeqToSet(outbox.typing)
    \cup UNION {SeqToSet(outbox.status[m]) : m \in MsgIds}

\* C38: every message:new, message:status and user:typing event of an
\* existing conversation was delivered only to sockets of participants of
\* that conversation.
C38_RoomEventsReachParticipantsOnly ==
  \A e \in RoomEvents :
    ConvExists(e.c) => \A s \in e.to : Includes(convs[e.c].participants, UserOf(s))

\* the user:typing events of user u in conversation c, in emission order
TypingOf(u, c) == SelectSeq(outbox.typing, LAMBDA e : e.u = u /\ e.c = c)

\* the last user:typing event of u in c says that u is typing, it reached
\* somebody, and it was emitted early enough for its timeout to run before
\* the clock stops
TypingShown(u, c) ==
  /\ TypingOf(u, c) # <<>>
  /\ TypingOf(u, c)[Len(TypingOf(u, c))].to # {}
  /\ TypingOf(u, c)[Len(TypingOf(u, c))].st = "true"
  /\ TypingOf(u, c)[Len(TypingOf(u, c))].n + TypingTimeout <= MaxTime

\* C39: every user:typing true of a user in c1 is eventually followed by a
\* user:typing false of that user in c1, also when the user leaves the
\* conversation while typing.
C39_TypingEventuallyStops ==
  \A u \in TypingSockets : TypingShown(u, "c1") ~> ~TypingShown(u, "c1")

\* two conversations stored under different ids with the same participants
SamePair(c, d) ==
  /\ c # d
  /\ SeqToSet(convs[c].participants) = SeqToSet(convs[d].participants)

\* C40: no two stored conversations have the same set of participants.
C40_OneConversationPerPair ==
  \A c \in DOMAIN convs : \A d \in DOMAIN convs : ~SamePair(c, d)

====
